---- MODULE Spec2Model ----
(***************************************************************************)
(* Model of the persistent task queue of the invoice-recognition system,   *)
(* src/src/models/queue_manager.py (class QueueManager).                   *)
(*                                                                         *)
(* Python objects are modelled with a heap: `heap` holds the Task objects  *)
(* of the running process by address, `tasks` (the dict self.tasks) maps a *)
(* task id to the address of its object and `queue` (the list self.queue)  *)
(* is a sequence of addresses, so that the aliasing between the dict and   *)
(* the list is the aliasing of the code.  The files of queue_dir are       *)
(* `task_files` (<id>.json) and `stats_file` (stats.json); the four        *)
(* sub-directories are `subdirs`.                                          *)
(*                                                                         *)
(* Every state-changing method is one atomic action: its body runs under   *)
(* self.lock.  get_queue_stats and get_stats are operators on the state.   *)
(*                                                                         *)
(* The recognition pipeline is modelled next to it: the stages             *)
(* (detection.py, ocr.py, data_extractor.py, table_parser.py) are          *)
(* operators on texts and boxes, applied by the actions of SpecStages, and *)
(* InvoiceProcessor (invoice_processor.py) runs them on the image files of *)
(* a directory in SpecProcessor.  A text is the sequence of the code       *)
(* points of its characters.                                               *)
(***************************************************************************)
EXTENDS Integers, Sequences, FiniteSets, TLC

\* ------------------------------------------------------------------------
\* Bounds of the model and constants of the program
\* ------------------------------------------------------------------------

\* QueueManager(max_size=...): capacity of the queue (1000 by default)
max_size == 1

\* QueueManager(max_retries=3)
max_retries == 3

\* the clock time.time() runs over 0..MaxTime (whole seconds)
MaxTime == 1

\* at most MaxObjects Task objects are alive at a time
MaxObjects == 2

\* the counter self.stats["total"] is followed up to MaxTotal
MaxTotal == 2

\* the size of self.tasks up to which add_task is followed when the methods
\* run statement by statement
MaxThreadTasks == 1

None == "None"

TaskTypes == {"invoice"}

Payloads == {"d1"}

Results == {"r1"}

Errors == {"e1"}

MaxAges == {0, 1}

\* class TaskStatus(Enum): the members, named by their values
PENDING == "pending"

PROCESSING == "processing"

COMPLETED == "completed"

FAILED == "failed"

TaskStatus == {PENDING, PROCESSING, COMPLETED, FAILED}

VARIABLES
    heap,        \* address -> Task object of the running process, or FreedObject
    tasks,       \* self.tasks : task id -> address
    queue,       \* self.queue : sequence of addresses
    stats,       \* self.stats
    lock,        \* self.lock : "free" or "held"
    blocked,     \* tasks_to_remove of a cleanup_tasks call blocked on self.lock
    task_files,  \* queue_dir/<id>.json : task id -> file content
    stats_file,  \* queue_dir/stats.json : <<>> (no file) or <<its content>>
    subdirs,     \* names of the *.json files of pending/ processing/ completed/ failed/
    now,         \* time.time()
    last         \* the last call made: its name, its arguments, what it returned, and
                 \* n: how many fail_task calls in a row were made on the id since its add_task

vars == <<heap, tasks, queue, stats, lock, blocked, task_files, stats_file,
          subdirs, now, last>>

\* The recognition pipeline (invoice_processor.py and the stages it calls)
VARIABLES
    images,      \* the image directory: path (<<stem, extension>>) -> image file
    json_dir,    \* output/json of the InvoiceProcessor: <<stem, timestamp>> -> saved file
    images_dir,  \* output/images: <<stem, timestamp>> -> the source of the picture
                 \* written there
    model,       \* self.detector.model: None, or the model that was loaded
    call         \* the last call made on the pipeline or on a stage: its name, its
                 \* arguments and what it returned or raised

pvars == <<images, json_dir, images_dir, model, call>>

\* the model loaded by torch.hub.load
YOLOv5 == "yolov5"

\* The threads of the process
VARIABLES
    threads      \* thread -> the call it is in, and where in it

\* no call was made yet
NoCall == [op |-> "__init__"]

\* InvoiceProcessor.__init__ on an empty output directory, no image given
InitProcessor ==
    /\ images = [p \in {} |-> 0]
    /\ json_dir = [k \in {} |-> 0]
    /\ images_dir = [k \in {} |-> 0]
    /\ model = YOLOv5
    /\ call = NoCall

\* ------------------------------------------------------------------------
\* Task, ids and the JSON files
\* ------------------------------------------------------------------------

\* @dataclass Task: the fields, in declaration order.  There is no field
\* `retries`.
TaskFields == <<"id", "type", "data", "status", "created_at", "updated_at", "result", "error">>

\* the Python type of each field's value, as json.dump meets it
FieldType(f) ==
    CASE f = "id" -> "str"
      [] f = "type" -> "str"
      [] f = "data" -> "dict"
      [] f = "status" -> "TaskStatus"
      [] f = "created_at" -> "float"
      [] f = "updated_at" -> "float"
      [] f = "result" -> "Optional[dict]"
      [] f = "error" -> "Optional[str]"

\* types the json encoder can write; an Enum member is not one of them
JsonSerializable(type) == type \in {"str", "dict", "float", "Optional[dict]", "Optional[str]"}

Task(id, type, data, status, created_at, updated_at, result, error) ==
    [id |-> id, type |-> type, data |-> data, status |-> status,
     created_at |-> created_at, updated_at |-> updated_at,
     result |-> result, error |-> error]

\* f"{task_type}_{int(time.time())}_{len(self.tasks)}": the three parts
\* are kept apart (the task types of the model hold no underscore)
task_id(task_type, time, n) == <<task_type, time, n>>

\* number of leading fields json.dump writes before it raises TypeError
\* (all of them if every field is serializable)
RECURSIVE WrittenPrefix(_)
WrittenPrefix(i) ==
    IF i > Len(TaskFields) THEN Len(TaskFields)
    ELSE IF ~JsonSerializable(FieldType(TaskFields[i])) THEN i - 1
    ELSE WrittenPrefix(i + 1)

\* json.dump(asdict(task), f, indent=2) into a file opened with "w": the
\* encoder writes chunk by chunk, so the file keeps the fields written
\* before the encoder raised
json_dump(task) ==
    [f \in {TaskFields[i] : i \in 1..WrittenPrefix(1)} |-> task[f]]

\* json.load(f) raises on a truncated document
json_valid(content) == DOMAIN content = {TaskFields[i] : i \in 1..Len(TaskFields)}

\* _save_task(task): (re)writes queue_dir/<task.id>.json; errors are logged
_save_task(files, task) ==
    [f \in DOMAIN files \cup {task.id} |->
        IF f = task.id THEN json_dump(task) ELSE files[f]]

\* _save_state(), the task part: _save_task for every task of self.tasks
_save_state(files, h, t) ==
    [f \in DOMAIN files \cup DOMAIN t |->
        IF f \in DOMAIN t THEN json_dump(h[t[f]]) ELSE files[f]]

\* the id field of `last` for a call that has no id
NoId == <<None, 0, 0>>

ZeroStats == [total |-> 0, completed |-> 0, failed |-> 0, retries |-> 0]

\* garbage collection: a Task object that neither self.tasks nor self.queue
\* refers to is freed; its slot then holds FreedObject
FreedObject == [freed |-> TRUE]

gc(h, t, q) ==
    [o \in DOMAIN h |->
        IF o \in {t[k] : k \in DOMAIN t} \cup {q[i] : i \in 1..Len(q)}
        THEN h[o] ELSE FreedObject]

\* the addresses that hold no object
free(h) == {o \in DOMAIN h : h[o] = FreedObject}

\* the address given to a new object
alloc(h) == CHOOSE o \in free(h) : \A p \in free(h) : o <= p

RECURSIVE SetToSeq(_)
SetToSeq(S) ==
    IF S = {} THEN <<>>
    ELSE LET x == CHOOSE y \in S : TRUE IN <<x>> \o SetToSeq(S \ {x})

\* position of x in the sequence s
IndexOf(s, x) == CHOOSE i \in 1..Len(s) : s[i] = x

\* the threads that call the methods of the QueueManager
Threads == {"t1", "t2"}

\* a thread that is in no call.  In a call: op is the method, pc the
\* statement it is at, id / a / age the arguments (a = <<status, result,
\* error>>), time the current_time of cleanup_tasks, todo the rest of the
\* list or of the dict it iterates, size the size of the dict when the
\* iteration started (count in cleanup_tasks), obs what it has read of the
\* tasks (<<status, result, error>> each), ret what it returns and caller
\* the method that called it
Idle ==
    [op |-> "idle", pc |-> "idle", id |-> NoId, a |-> <<None, None, None>>,
     age |-> 0, time |-> 0, todo |-> <<>>, size |-> 0, obs |-> <<>>, ret |-> "None",
     caller |-> "idle"]

\* ------------------------------------------------------------------------
\* Initial state: a QueueManager constructed on a new directory
\* ------------------------------------------------------------------------
\* QueueManager.__init__ on a new directory
InitQueue ==
    /\ heap = [o \in 1..MaxObjects |-> FreedObject]
    /\ tasks = [id \in {} |-> 0]
    /\ queue = <<>>
    /\ stats = ZeroStats
    /\ lock = "free"
    /\ blocked = {}
    /\ task_files = [id \in {} |-> None]
    /\ stats_file = <<>>
    /\ subdirs = [pending |-> {}, processing |-> {}, completed |-> {}, failed |-> {}]
    /\ now = 0
    /\ last = [op |-> "__init__", id |-> NoId, age |-> 0, ret |-> "None", n |-> 0]
    /\ threads = [t \in Threads |-> Idle]

\* the queue next to a pipeline that is not used
Init == InitQueue /\ InitProcessor

\* ------------------------------------------------------------------------
\* Operations
\* ------------------------------------------------------------------------

\* add_task(task_type, data)
add_task(task_type, data) ==
    /\ lock = "free"
    /\ IF Len(queue) >= max_size
       THEN \* "Очередь переполнена": return None
            /\ last' = [op |-> "add_task", id |-> NoId, age |-> 0, ret |-> "None", n |-> 0]
            /\ UNCHANGED <<heap, tasks, queue, stats, task_files, stats_file>>
       ELSE LET id == task_id(task_type, now, Cardinality(DOMAIN tasks))
                task == Task(id, task_type, data, PENDING, now, now, None, None)
                o == alloc(heap)
                h == [heap EXCEPT ![o] = task]
                t == [k \in DOMAIN tasks \cup {id} |-> IF k = id THEN o ELSE tasks[k]]
            IN  /\ free(heap) # {}
                /\ stats.total < MaxTotal
                /\ heap' = gc(h, t, Append(queue, o))
                /\ tasks' = t
                /\ queue' = Append(queue, o)
                /\ stats' = [stats EXCEPT !.total = @ + 1]
                /\ task_files' = _save_state(_save_task(task_files, task), h, t)
                /\ stats_file' = <<stats'>>
                /\ last' = [op |-> "add_task", id |-> id, age |-> 0, ret |-> "id", n |-> 0]
    /\ UNCHANGED <<lock, blocked, subdirs, now>>

\* shutil.move(src_dir/<id>.json, dst_dir/<id>.json) raises when the source
\* file does not exist
move_ok(src_dir, id) == id \in subdirs[src_dir]

move(src_dir, dst_dir, id) ==
    [d \in DOMAIN subdirs |->
        IF d = dst_dir THEN subdirs[d] \cup {id}
        ELSE IF d = src_dir THEN subdirs[d] \ {id}
        ELSE subdirs[d]]

\* complete_task(task_id, result)
complete_task(id, result) ==
    /\ lock = "free"
    /\ IF id \notin DOMAIN tasks
       THEN \* task is None: return False
            /\ last' = [op |-> "complete_task", id |-> id, age |-> 0, ret |-> "False", n |-> 0]
            /\ UNCHANGED <<heap, stats, task_files, stats_file, subdirs>>
       ELSE LET h == [heap EXCEPT ![tasks[id]].status = COMPLETED,
                                  ![tasks[id]].updated_at = now,
                                  ![tasks[id]].result = result]
            IN  /\ heap' = h
                /\ IF move_ok("processing", id)
                   THEN /\ subdirs' = move("processing", "completed", id)
                        /\ stats' = [stats EXCEPT !.completed = @ + 1]
                        /\ task_files' = _save_state(task_files, h, tasks)
                        /\ stats_file' = <<stats'>>
                        /\ last' = [op |-> "complete_task", id |-> id, age |-> 0, ret |-> "True", n |-> 0]
                   ELSE \* shutil.move raised: except branch, return False
                        /\ last' = [op |-> "complete_task", id |-> id, age |-> 0, ret |-> "False", n |-> 0]
                        /\ UNCHANGED <<stats, task_files, stats_file, subdirs>>
    /\ UNCHANGED <<tasks, queue, lock, blocked, now>>

\* reading task.retries raises AttributeError unless the attribute was set
has_retries(task) == "retries" \in DOMAIN task

\* task.retries + 1 if task.retries else 1
next_retries(task) == IF task.retries # 0 THEN task.retries + 1 ELSE 1

\* history: the number of fail_task calls made in a row on `id` right after
\* the add_task that returned it (0 when the call is not part of such a
\* run); it stops counting at max_retries
fail_run(id) ==
    IF last.id = id /\ last.op = "add_task" THEN 1
    ELSE IF last.id = id /\ last.op = "fail_task" /\ last.n > 0
         THEN IF last.n < max_retries THEN last.n + 1 ELSE last.n
    ELSE 0

\* fail_task(task_id, error)
fail_task(id, error) ==
    /\ lock = "free"
    /\ IF id \notin DOMAIN tasks
       THEN \* task is None: return False
            /\ last' = [op |-> "fail_task", id |-> id, age |-> 0, ret |-> "False", n |-> fail_run(id)]
            /\ UNCHANGED <<heap, stats, task_files, stats_file, subdirs>>
       ELSE IF ~has_retries(heap[tasks[id]])
       THEN \* AttributeError before anything is assigned: return False
            /\ last' = [op |-> "fail_task", id |-> id, age |-> 0, ret |-> "False", n |-> fail_run(id)]
            /\ UNCHANGED <<heap, stats, task_files, stats_file, subdirs>>
       ELSE LET o == tasks[id]
                r == next_retries(heap[o])
                exhausted == r >= max_retries
                h == IF exhausted
                     THEN [heap EXCEPT ![o].retries = r, ![o].error = error,
                                       ![o].status = FAILED, ![o].updated_at = now]
                     ELSE [heap EXCEPT ![o].retries = r, ![o].error = error,
                                       ![o].status = PENDING]
            IN  /\ heap' = h
                /\ IF move_ok("processing", id)
                   THEN /\ subdirs' = move("processing", IF exhausted THEN "failed" ELSE "pending", id)
                        /\ stats' = IF exhausted THEN [stats EXCEPT !.failed = @ + 1]
                                                 ELSE [stats EXCEPT !.retries = @ + 1]
                        /\ task_files' = _save_state(task_files, h, tasks)
                        /\ stats_file' = <<stats'>>
                        /\ last' = [op |-> "fail_task", id |-> id, age |-> 0, ret |-> "True", n |-> fail_run(id)]
                   ELSE \* shutil.move raised: except branch, return False
                        /\ last' = [op |-> "fail_task", id |-> id, age |-> 0, ret |-> "False", n |-> fail_run(id)]
                        /\ UNCHANGED <<stats, task_files, stats_file, subdirs>>
    /\ UNCHANGED <<tasks, queue, lock, blocked, now>>

\* update_task(task_id, status, result, error)
update_task(id, status, result, error) ==
    /\ lock = "free"
    /\ IF id \notin DOMAIN tasks
       THEN /\ last' = [op |-> "update_task", id |-> id, age |-> 0, ret |-> "False", n |-> 0]
            /\ UNCHANGED <<heap, task_files>>
       ELSE LET h == [heap EXCEPT ![tasks[id]].status = status,
                                  ![tasks[id]].updated_at = now,
                                  ![tasks[id]].result = result,
                                  ![tasks[id]].error = error]
            IN  /\ heap' = h
                /\ task_files' = _save_task(task_files, h[tasks[id]])
                /\ last' = [op |-> "update_task", id |-> id, age |-> 0, ret |-> "True", n |-> 0]
    /\ UNCHANGED <<tasks, queue, stats, lock, blocked, stats_file, subdirs, now>>

\* remove_task that reports success for an id it does not hold
remove_task_idempotent(id) ==
    /\ lock = "free"
    /\ IF id \notin DOMAIN tasks
       THEN /\ last' = [op |-> "remove_task", id |-> id, age |-> 0, ret |-> "True", n |-> 0]
            /\ UNCHANGED <<heap, tasks, task_files>>
       ELSE /\ task_files' = [f \in DOMAIN task_files \ {id} |-> task_files[f]]
            /\ tasks' = [k \in DOMAIN tasks \ {id} |-> tasks[k]]
            /\ heap' = gc(heap, tasks', queue)
            /\ last' = [op |-> "remove_task", id |-> id, age |-> 0, ret |-> "True", n |-> 0]
    /\ UNCHANGED <<queue, stats, lock, blocked, stats_file, subdirs, now>>

\* remove_task(task_id)
remove_task(id) ==
    /\ lock = "free"
    /\ IF id \notin DOMAIN tasks
       THEN /\ last' = [op |-> "remove_task", id |-> id, age |-> 0, ret |-> "False", n |-> 0]
            /\ UNCHANGED <<heap, tasks, task_files>>
       ELSE /\ task_files' = [f \in DOMAIN task_files \ {id} |-> task_files[f]]
            /\ tasks' = [k \in DOMAIN tasks \ {id} |-> tasks[k]]
            /\ heap' = gc(heap, tasks', queue)
            /\ last' = [op |-> "remove_task", id |-> id, age |-> 0, ret |-> "True", n |-> 0]
    /\ UNCHANGED <<queue, stats, lock, blocked, stats_file, subdirs, now>>

\* tasks_to_remove without the test of the status
tasks_to_remove_any_status(max_age) ==
    {id \in DOMAIN tasks : now - heap[tasks[id]].updated_at > max_age}

\* cleanup_tasks: the ids collected into tasks_to_remove
tasks_to_remove(max_age) ==
    {id \in DOMAIN tasks :
        /\ heap[tasks[id]].status \in {COMPLETED, FAILED}
        /\ now - heap[tasks[id]].updated_at > max_age}

\* cleanup_tasks(max_age): takes self.lock, collects tasks_to_remove and
\* calls self.remove_task for each; remove_task takes self.lock again, and
\* threading.Lock is not reentrant, so the first such call never returns
\* and the lock stays held
cleanup_tasks(max_age) ==
    /\ lock = "free"
    /\ IF tasks_to_remove(max_age) = {}
       THEN /\ last' = [op |-> "cleanup_tasks", id |-> NoId, age |-> max_age, ret |-> "0", n |-> 0]
            /\ UNCHANGED <<lock, blocked>>
       ELSE /\ lock' = "held"
            /\ blocked' = tasks_to_remove(max_age)
            /\ last' = [op |-> "cleanup_tasks", id |-> NoId, age |-> max_age, ret |-> "NoReturn", n |-> 0]
    /\ UNCHANGED <<heap, tasks, queue, stats, task_files, stats_file, subdirs, now>>

\* clear_queue(): unlinks the *.json files of the four sub-directories,
\* resets self.queue and self.stats, then _save_state(); self.tasks and
\* queue_dir/<id>.json are not touched
clear_queue ==
    /\ lock = "free"
    /\ subdirs' = [d \in DOMAIN subdirs |-> {}]
    /\ queue' = <<>>
    /\ heap' = gc(heap, tasks, <<>>)
    /\ stats' = ZeroStats
    /\ task_files' = _save_state(task_files, heap, tasks)
    /\ stats_file' = <<ZeroStats>>
    /\ last' = [op |-> "clear_queue", id |-> NoId, age |-> 0, ret |-> "True", n |-> 0]
    /\ UNCHANGED <<tasks, lock, blocked, now>>

\* Task(**task_data) for a file that json.load accepts
load_task(content) ==
    Task(content.id, content.type, content.data, content.status,
         content.created_at, content.updated_at, content.result, content.error)

\* files of queue_dir that _load_state turns into tasks; a file whose
\* json.load raises is logged and skipped (stats.json is skipped too: it
\* has no "id")
loadable == {f \in DOMAIN task_files : json_valid(task_files[f])}

\* QueueManager(queue_dir) constructed again on the same directory
\* (__init__ and _load_state): a new process, or a new instance
Restart ==
    LET ids == SetToSeq(loadable)
    IN  /\ Len(ids) <= MaxObjects
        /\ heap' = [o \in 1..MaxObjects |->
                        IF o <= Len(ids) THEN load_task(task_files[ids[o]]) ELSE FreedObject]
        /\ tasks' = [id \in loadable |-> IndexOf(ids, id)]
        /\ queue' = <<>>
        /\ stats' = IF stats_file = <<>> THEN ZeroStats ELSE stats_file[1]
        /\ lock' = "free"
        /\ blocked' = {}
        /\ last' = [op |-> "__init__", id |-> NoId, age |-> 0, ret |-> "None", n |-> 0]
        /\ UNCHANGED <<task_files, stats_file, subdirs, now>>

\* the clock advances
Tick ==
    /\ now < MaxTime
    /\ now' = now + 1
    /\ UNCHANGED <<heap, tasks, queue, stats, lock, blocked, task_files, stats_file,
                   subdirs, last>>

\* an id that add_task never assigns: the argument of the calls made on a
\* task that is not in self.tasks
AbsentId == <<"invoice", 0, MaxObjects>>

CallIds == DOMAIN tasks \cup {AbsentId}

\* the (status, result, error) arguments given to update_task
UpdateArgs ==
    {<<PENDING, None, None>>, <<PROCESSING, None, None>>}
        \cup {<<COMPLETED, result, None>> : result \in Results}
        \cup {<<FAILED, None, error>> : error \in Errors}

Next ==
    \/ \E task_type \in TaskTypes, data \in Payloads : add_task(task_type, data) /\ UNCHANGED <<pvars, threads>>
    \/ \E id \in CallIds, result \in Results : complete_task(id, result) /\ UNCHANGED <<pvars, threads>>
    \/ \E id \in CallIds, error \in Errors : fail_task(id, error) /\ UNCHANGED <<pvars, threads>>
    \/ \E id \in CallIds, a \in UpdateArgs : update_task(id, a[1], a[2], a[3]) /\ UNCHANGED <<pvars, threads>>
    \/ \E id \in CallIds : remove_task(id) /\ UNCHANGED <<pvars, threads>>
    \/ \E max_age \in MaxAges : cleanup_tasks(max_age) /\ UNCHANGED <<pvars, threads>>
    \/ clear_queue /\ UNCHANGED <<pvars, threads>>
    \/ Restart /\ UNCHANGED <<pvars, threads>>
    \/ Tick /\ UNCHANGED <<pvars, threads>>

Spec == Init /\ [][Next]_vars

\* ------------------------------------------------------------------------
\* Read-only operations
\* ------------------------------------------------------------------------

\* get_queue_stats(): counts the status of the tasks of self.queue
get_queue_stats ==
    [total |-> stats.total, completed |-> stats.completed, failed |-> stats.failed,
     retries |-> stats.retries,
     status |-> [s \in TaskStatus |->
                    Cardinality({i \in 1..Len(queue) : heap[queue[i]].status = s})]]

\* get_stats(): the loop over self.tasks.values(), one task at a time
RECURSIVE get_stats_loop(_, _)
get_stats_loop(acc, ids) ==
    IF ids = <<>> THEN acc
    ELSE LET t == heap[tasks[Head(ids)]]
             by0 == IF t.type \in DOMAIN acc.by_type THEN acc.by_type
                    ELSE [ty \in DOMAIN acc.by_type \cup {t.type} |->
                            IF ty = t.type
                            THEN [s \in TaskStatus \cup {"total"} |-> 0]
                            ELSE acc.by_type[ty]]
             by1 == [by0 EXCEPT ![t.type]["total"] = @ + 1, ![t.type][t.status] = @ + 1]
         IN  get_stats_loop([acc EXCEPT !.count[t.status] = @ + 1, !.by_type = by1],
                            Tail(ids))

get_stats ==
    get_stats_loop([total |-> Cardinality(DOMAIN tasks),
                    count |-> [s \in TaskStatus |-> 0],
                    by_type |-> [ty \in {} |-> 0]],
                   SetToSeq(DOMAIN tasks))

\* get_task_status(task_id): <<>> for None, <<the dict>> otherwise; the dict
\* reads task.retries, which raises AttributeError on a Task that has no
\* such attribute, and the except branch returns None
get_task_status(id) ==
    IF id \notin DOMAIN tasks THEN <<>>
    ELSE IF ~has_retries(heap[tasks[id]]) THEN <<>>
    ELSE <<[id |-> id, status |-> heap[tasks[id]].status,
            retries |-> heap[tasks[id]].retries,
            created_at |-> heap[tasks[id]].created_at,
            started_at |-> heap[tasks[id]].updated_at,
            completed_at |-> heap[tasks[id]].updated_at,
            failed_at |-> heap[tasks[id]].updated_at,
            last_error |-> heap[tasks[id]].error,
            result |-> heap[tasks[id]].result]>>

\* ------------------------------------------------------------------------
\* Threads: the methods of one QueueManager called from several threads,
\* statement by statement
\* ------------------------------------------------------------------------

\* the methods whose body runs under `with self.lock`
LockedMethods ==
    {"add_task", "complete_task", "fail_task", "get_task_status", "get_queue_stats",
     "clear_queue", "update_task", "remove_task", "cleanup_tasks"}

\* the methods that change the state of the queue
MutatingMethods ==
    {"add_task", "update_task", "complete_task", "fail_task", "remove_task",
     "clear_queue", "cleanup_tasks"}

at(t, op, pc) == threads[t].op = op /\ threads[t].pc = pc

\* what a caller reads of a task
fields(task_object) == <<task_object.status, task_object.result, task_object.error>>

\* the calls a thread can make; the ids are those of the tasks of the table
\* (the task may be gone when the call gets the lock)
Calls ==
    {[Idle EXCEPT !.op = op, !.pc = "acquire"] :
        op \in {"add_task", "clear_queue", "get_queue_stats"}}
    \cup {[Idle EXCEPT !.op = op, !.pc = "acquire", !.id = id] :
            op \in {"remove_task", "get_task_status"}, id \in DOMAIN tasks}
    \cup {[Idle EXCEPT !.op = "complete_task", !.pc = "acquire", !.id = id,
                       !.a = <<COMPLETED, result, None>>] :
            id \in DOMAIN tasks, result \in Results}
    \cup {[Idle EXCEPT !.op = "fail_task", !.pc = "acquire", !.id = id,
                       !.a = <<FAILED, None, error>>] :
            id \in DOMAIN tasks, error \in Errors}
    \cup {[Idle EXCEPT !.op = "update_task", !.pc = "acquire", !.id = id, !.a = a] :
            id \in DOMAIN tasks, a \in UpdateArgs}
    \cup {[Idle EXCEPT !.op = "cleanup_tasks", !.pc = "acquire", !.age = max_age,
                       !.time = now] :
            max_age \in MaxAges}
    \cup {[Idle EXCEPT !.op = "get_task", !.pc = "read", !.id = id] : id \in DOMAIN tasks}
    \cup {[Idle EXCEPT !.op = op, !.pc = "read"] : op \in {"get_pending_tasks", "get_stats"}}

\* a thread calls a method
Call(t) ==
    /\ threads[t] = Idle
    /\ \E c \in Calls : threads' = [threads EXCEPT ![t] = c]
    /\ UNCHANGED vars

\* the add_task calls that are followed: those that find the queue full,
\* and those that create a task within the bounds of the model
followed ==
    \/ Len(queue) >= max_size
    \/ /\ free(heap) # {}
       /\ stats.total < MaxTotal
       /\ Cardinality(DOMAIN tasks) < MaxThreadTasks

\* Acquire that does not wait for the lock
Acquire_no_wait(t) ==
    /\ threads[t].pc = "acquire"
    /\ threads[t].op = "add_task" => followed
    /\ lock' = "held"
    /\ threads' = [threads EXCEPT ![t].pc = "body"]
    /\ UNCHANGED <<heap, tasks, queue, stats, blocked, task_files, stats_file, subdirs,
                   now, last>>

\* with self.lock: __enter__ (threading.Lock is not reentrant)
Acquire(t) ==
    /\ threads[t].pc = "acquire"
    /\ threads[t].op = "add_task" => followed
    /\ lock = "free"
    /\ lock' = "held"
    /\ threads' = [threads EXCEPT ![t].pc = "body"]
    /\ UNCHANGED <<heap, tasks, queue, stats, blocked, task_files, stats_file, subdirs,
                   now, last>>

\* the end of a call: __exit__ of `with self.lock` (on return and on an
\* exception alike), then the return; remove_task called by cleanup_tasks
\* returns into its loop
Return(t) ==
    /\ threads[t].pc = "return"
    /\ lock' = IF threads[t].op \in LockedMethods THEN "free" ELSE lock
    /\ threads' =
          [threads EXCEPT ![t] =
              IF threads[t].caller = "cleanup_tasks"
              THEN [Idle EXCEPT !.op = "cleanup_tasks", !.pc = "loop",
                                !.age = threads[t].age, !.time = threads[t].time,
                                !.todo = Tail(threads[t].todo),
                                !.size = threads[t].size
                                            + (IF threads[t].ret = "True" THEN 1 ELSE 0)]
              ELSE Idle]
    /\ UNCHANGED <<heap, tasks, queue, stats, blocked, task_files, stats_file, subdirs,
                   now, last>>

\* add_task, lines 158-178: the test of the size, the new Task, its entry
\* in self.tasks and its file
add_task_create(t) ==
    /\ at(t, "add_task", "body")
    /\ IF Len(queue) >= max_size
       THEN /\ threads' = [threads EXCEPT ![t].pc = "return", ![t].ret = "None"]
            /\ UNCHANGED <<heap, tasks, task_files>>
       ELSE \E task_type \in TaskTypes, data \in Payloads :
              LET id == task_id(task_type, now, Cardinality(DOMAIN tasks))
                  new == Task(id, task_type, data, PENDING, now, now, None, None)
                  o == alloc(heap)
              IN  /\ heap' = gc([heap EXCEPT ![o] = new],
                                [k \in DOMAIN tasks \cup {id} |->
                                    IF k = id THEN o ELSE tasks[k]],
                                queue)
                  /\ tasks' = [k \in DOMAIN tasks \cup {id} |->
                                  IF k = id THEN o ELSE tasks[k]]
                  /\ task_files' = _save_task(task_files, new)
                  /\ threads' = [threads EXCEPT ![t].pc = "append", ![t].id = id]
    /\ UNCHANGED <<queue, stats, lock, blocked, stats_file, subdirs, now, last>>

\* add_task, lines 180-188: the queue, the statistics, _save_state
add_task_append(t) ==
    /\ at(t, "add_task", "append")
    /\ queue' = Append(queue, tasks[threads[t].id])
    /\ stats' = [stats EXCEPT !.total = @ + 1]
    /\ task_files' = _save_state(task_files, heap, tasks)
    /\ stats_file' = <<stats'>>
    /\ threads' = [threads EXCEPT ![t].pc = "return", ![t].ret = "id"]
    /\ UNCHANGED <<heap, tasks, lock, blocked, subdirs, now, last>>

\* update_task, lines 462-470: the lookup, task.status and task.updated_at
update_task_status(t) ==
    /\ at(t, "update_task", "body")
    /\ IF threads[t].id \notin DOMAIN tasks
       THEN /\ threads' = [threads EXCEPT ![t].pc = "return", ![t].ret = "False"]
            /\ UNCHANGED heap
       ELSE /\ heap' = [heap EXCEPT ![tasks[threads[t].id]].status = threads[t].a[1],
                                    ![tasks[threads[t].id]].updated_at = now]
            /\ threads' = [threads EXCEPT ![t].pc = "fields"]
    /\ UNCHANGED <<tasks, queue, stats, lock, blocked, task_files, stats_file, subdirs,
                   now, last>>

\* update_task, lines 471-472: task.result and task.error
update_task_fields(t) ==
    /\ at(t, "update_task", "fields")
    /\ heap' = [heap EXCEPT ![tasks[threads[t].id]].result = threads[t].a[2],
                            ![tasks[threads[t].id]].error = threads[t].a[3]]
    /\ threads' = [threads EXCEPT ![t].pc = "save"]
    /\ UNCHANGED <<tasks, queue, stats, lock, blocked, task_files, stats_file, subdirs,
                   now, last>>

\* update_task, lines 474-477: _save_task
update_task_save(t) ==
    /\ at(t, "update_task", "save")
    /\ task_files' = _save_task(task_files, heap[tasks[threads[t].id]])
    /\ threads' = [threads EXCEPT ![t].pc = "return", ![t].ret = "True"]
    /\ UNCHANGED <<heap, tasks, queue, stats, lock, blocked, stats_file, subdirs, now,
                   last>>

\* complete_task, lines 223-233: the lookup and the three assignments
complete_task_assign(t) ==
    /\ at(t, "complete_task", "body")
    /\ IF threads[t].id \notin DOMAIN tasks
       THEN /\ threads' = [threads EXCEPT ![t].pc = "return", ![t].ret = "False"]
            /\ UNCHANGED heap
       ELSE /\ heap' = [heap EXCEPT ![tasks[threads[t].id]].status = COMPLETED,
                                    ![tasks[threads[t].id]].updated_at = now,
                                    ![tasks[threads[t].id]].result = threads[t].a[2]]
            /\ threads' = [threads EXCEPT ![t].pc = "move"]
    /\ UNCHANGED <<tasks, queue, stats, lock, blocked, task_files, stats_file, subdirs,
                   now, last>>

\* complete_task, lines 235-251: shutil.move, the statistics, _save_state
complete_task_move(t) ==
    /\ at(t, "complete_task", "move")
    /\ IF move_ok("processing", threads[t].id)
       THEN /\ subdirs' = move("processing", "completed", threads[t].id)
            /\ stats' = [stats EXCEPT !.completed = @ + 1]
            /\ task_files' = _save_state(task_files, heap, tasks)
            /\ stats_file' = <<stats'>>
            /\ threads' = [threads EXCEPT ![t].pc = "return", ![t].ret = "True"]
       ELSE /\ threads' = [threads EXCEPT ![t].pc = "return", ![t].ret = "False"]
            /\ UNCHANGED <<stats, task_files, stats_file, subdirs>>
    /\ UNCHANGED <<heap, tasks, queue, lock, blocked, now, last>>

\* fail_task, lines 266-310: the body; task.retries raises AttributeError
\* before anything is assigned
fail_task_body(t) ==
    /\ at(t, "fail_task", "body")
    /\ IF threads[t].id \notin DOMAIN tasks \/ ~has_retries(heap[tasks[threads[t].id]])
       THEN /\ threads' = [threads EXCEPT ![t].pc = "return", ![t].ret = "False"]
            /\ UNCHANGED <<heap, stats, task_files, stats_file, subdirs>>
       ELSE LET o == tasks[threads[t].id]
                r == next_retries(heap[o])
                exhausted == r >= max_retries
                h == IF exhausted
                     THEN [heap EXCEPT ![o].retries = r, ![o].error = threads[t].a[3],
                                       ![o].status = FAILED, ![o].updated_at = now]
                     ELSE [heap EXCEPT ![o].retries = r, ![o].error = threads[t].a[3],
                                       ![o].status = PENDING]
            IN  /\ heap' = h
                /\ IF move_ok("processing", threads[t].id)
                   THEN /\ subdirs' = move("processing",
                                           IF exhausted THEN "failed" ELSE "pending",
                                           threads[t].id)
                        /\ stats' = IF exhausted THEN [stats EXCEPT !.failed = @ + 1]
                                                 ELSE [stats EXCEPT !.retries = @ + 1]
                        /\ task_files' = _save_state(task_files, h, tasks)
                        /\ stats_file' = <<stats'>>
                        /\ threads' = [threads EXCEPT ![t].pc = "return",
                                                      ![t].ret = "True"]
                   ELSE /\ threads' = [threads EXCEPT ![t].pc = "return",
                                                      ![t].ret = "False"]
                        /\ UNCHANGED <<stats, task_files, stats_file, subdirs>>
    /\ UNCHANGED <<tasks, queue, lock, blocked, now, last>>

\* remove_task, lines 495-504: the lookup and the unlink of the file
remove_task_unlink(t) ==
    /\ at(t, "remove_task", "body")
    /\ IF threads[t].id \notin DOMAIN tasks
       THEN /\ threads' = [threads EXCEPT ![t].pc = "return", ![t].ret = "False"]
            /\ UNCHANGED task_files
       ELSE /\ task_files' = [f \in DOMAIN task_files \ {threads[t].id} |-> task_files[f]]
            /\ threads' = [threads EXCEPT ![t].pc = "del"]
    /\ UNCHANGED <<heap, tasks, queue, stats, lock, blocked, stats_file, subdirs, now,
                   last>>

\* remove_task, lines 506-509: del self.tasks[task_id]
remove_task_del(t) ==
    /\ at(t, "remove_task", "del")
    /\ tasks' = [k \in DOMAIN tasks \ {threads[t].id} |-> tasks[k]]
    /\ heap' = gc(heap, tasks', queue)
    /\ threads' = [threads EXCEPT ![t].pc = "return", ![t].ret = "True"]
    /\ UNCHANGED <<queue, stats, lock, blocked, task_files, stats_file, subdirs, now,
                   last>>

\* cleanup_tasks, lines 530-536: tasks_to_remove, with the current_time
\* read before the lock was taken
cleanup_tasks_collect(t) ==
    /\ at(t, "cleanup_tasks", "body")
    /\ threads' =
          [threads EXCEPT
              ![t].pc = "loop",
              ![t].todo = SetToSeq({id \in DOMAIN tasks :
                                      /\ heap[tasks[id]].status \in {COMPLETED, FAILED}
                                      /\ threads[t].time - heap[tasks[id]].updated_at
                                             > threads[t].age})]
    /\ UNCHANGED vars

\* cleanup_tasks, lines 538-543: the loop; self.remove_task(task_id) is a
\* call made while the lock is held
cleanup_tasks_loop(t) ==
    /\ at(t, "cleanup_tasks", "loop")
    /\ threads' =
          [threads EXCEPT ![t] =
              IF threads[t].todo = <<>>
              THEN [threads[t] EXCEPT !.pc = "return", !.ret = "count"]
              ELSE [threads[t] EXCEPT !.op = "remove_task", !.pc = "acquire",
                                      !.id = Head(threads[t].todo),
                                      !.caller = "cleanup_tasks"]]
    /\ UNCHANGED vars

\* clear_queue, lines 398-411: the unlinks, self.queue and self.stats
clear_queue_reset(t) ==
    /\ at(t, "clear_queue", "body")
    /\ subdirs' = [d \in DOMAIN subdirs |-> {}]
    /\ queue' = <<>>
    /\ heap' = gc(heap, tasks, <<>>)
    /\ stats' = ZeroStats
    /\ threads' = [threads EXCEPT ![t].pc = "save"]
    /\ UNCHANGED <<tasks, lock, blocked, task_files, stats_file, now, last>>

\* clear_queue, lines 413-417: _save_state
clear_queue_save(t) ==
    /\ at(t, "clear_queue", "save")
    /\ task_files' = _save_state(task_files, heap, tasks)
    /\ stats_file' = <<stats>>
    /\ threads' = [threads EXCEPT ![t].pc = "return", ![t].ret = "True"]
    /\ UNCHANGED <<heap, tasks, queue, stats, lock, blocked, subdirs, now, last>>

\* get_queue_stats, lines 355-373: the body
get_queue_stats_body(t) ==
    /\ at(t, "get_queue_stats", "body")
    /\ threads' = [threads EXCEPT
                      ![t].pc = "return", ![t].ret = "dict",
                      ![t].obs = [i \in 1..Len(queue) |-> fields(heap[queue[i]])]]
    /\ UNCHANGED vars

\* get_task_status, lines 324-340: the body; task.retries raises
\* AttributeError
get_task_status_body(t) ==
    /\ at(t, "get_task_status", "body")
    /\ threads' =
          [threads EXCEPT
              ![t].pc = "return",
              ![t].ret = IF /\ threads[t].id \in DOMAIN tasks
                            /\ has_retries(heap[tasks[threads[t].id]])
                         THEN "dict" ELSE "None"]
    /\ UNCHANGED vars

\* get_task, line 205: self.tasks.get(task_id), no lock taken; the caller
\* reads the Task it is given
get_task_read(t) ==
    /\ at(t, "get_task", "read")
    /\ threads' =
          [threads EXCEPT ![t] =
              IF threads[t].id \in DOMAIN tasks
              THEN [threads[t] EXCEPT !.pc = "return", !.ret = "Task",
                                      !.obs = <<fields(heap[tasks[threads[t].id]])>>]
              ELSE [threads[t] EXCEPT !.pc = "return", !.ret = "None"]]
    /\ UNCHANGED vars

\* for task in self.tasks.values(), with no lock taken: the start of the
\* iteration
values_iter(t) ==
    /\ threads[t].op \in {"get_pending_tasks", "get_stats"}
    /\ threads[t].pc = "read"
    /\ threads' = [threads EXCEPT ![t].pc = "loop",
                                  ![t].todo = SetToSeq(DOMAIN tasks),
                                  ![t].size = Cardinality(DOMAIN tasks)]
    /\ UNCHANGED vars

\* one turn of the loop: RuntimeError (dictionary changed size during
\* iteration) when the size of self.tasks is not the one of the start, the
\* end of the loop, or the next task read
values_next(t) ==
    /\ threads[t].op \in {"get_pending_tasks", "get_stats"}
    /\ threads[t].pc = "loop"
    /\ threads' =
          [threads EXCEPT ![t] =
              IF Cardinality(DOMAIN tasks) # threads[t].size
              THEN [threads[t] EXCEPT !.pc = "return", !.ret = "RuntimeError",
                                      !.obs = <<>>, !.todo = <<>>]
              ELSE IF threads[t].todo = <<>>
              THEN [threads[t] EXCEPT !.pc = "return", !.ret = "dict"]
              ELSE IF Head(threads[t].todo) \notin DOMAIN tasks
              THEN [threads[t] EXCEPT !.todo = Tail(@)]
              ELSE [threads[t] EXCEPT
                       !.todo = Tail(@),
                       !.obs = Append(@, fields(heap[tasks[Head(threads[t].todo)]]))]]
    /\ UNCHANGED vars

\* the clock advances while the threads run
TickThreads == Tick /\ UNCHANGED threads

NextThreads ==
    \/ \E t \in Threads : Call(t) /\ UNCHANGED pvars
    \/ \E t \in Threads : Acquire(t) /\ UNCHANGED pvars
    \/ \E t \in Threads : Return(t) /\ UNCHANGED pvars
    \/ \E t \in Threads : add_task_create(t) /\ UNCHANGED pvars
    \/ \E t \in Threads : add_task_append(t) /\ UNCHANGED pvars
    \/ \E t \in Threads : update_task_status(t) /\ UNCHANGED pvars
    \/ \E t \in Threads : update_task_fields(t) /\ UNCHANGED pvars
    \/ \E t \in Threads : update_task_save(t) /\ UNCHANGED pvars
    \/ \E t \in Threads : complete_task_assign(t) /\ UNCHANGED pvars
    \/ \E t \in Threads : complete_task_move(t) /\ UNCHANGED pvars
    \/ \E t \in Threads : fail_task_body(t) /\ UNCHANGED pvars
    \/ \E t \in Threads : remove_task_unlink(t) /\ UNCHANGED pvars
    \/ \E t \in Threads : remove_task_del(t) /\ UNCHANGED pvars
    \/ \E t \in Threads : cleanup_tasks_collect(t) /\ UNCHANGED pvars
    \/ \E t \in Threads : cleanup_tasks_loop(t) /\ UNCHANGED pvars
    \/ \E t \in Threads : clear_queue_reset(t) /\ UNCHANGED pvars
    \/ \E t \in Threads : clear_queue_save(t) /\ UNCHANGED pvars
    \/ \E t \in Threads : get_queue_stats_body(t) /\ UNCHANGED pvars
    \/ \E t \in Threads : get_task_status_body(t) /\ UNCHANGED pvars
    \/ \E t \in Threads : get_task_read(t) /\ UNCHANGED pvars
    \/ \E t \in Threads : values_iter(t) /\ UNCHANGED pvars
    \/ \E t \in Threads : values_next(t) /\ UNCHANGED pvars
    \/ TickThreads /\ UNCHANGED pvars

tvars == <<vars, pvars, threads>>

SpecThreads == Init /\ [][NextThreads]_tvars

\* ------------------------------------------------------------------------
\* Text: a Python str is the sequence of the code points of its characters
\* ------------------------------------------------------------------------

\* longest repetition that the matcher tries for + and * (texts are shorter)
MaxRep == 24

\* the characters \s matches
Whitespace == {9, 10, 11, 12, 13, 28, 29, 30, 31, 32, 133, 160}

\* the characters \d matches
Digits == 48..57

\* every character of the texts (up to the numero sign, 8470)
AnyChar == 0..8470

\* str.lower() and str.upper() of one character: A-Z, А-Я and Ё
lower(c) ==
    IF c \in 65..90 \/ c \in 1040..1071 THEN c + 32
    ELSE IF c = 1025 THEN 1105
    ELSE c

upper(c) ==
    IF c \in 97..122 \/ c \in 1072..1103 THEN c - 32
    ELSE IF c = 1105 THEN 1025
    ELSE c

\* the element of a set of one element: the({e(v) : v \in {value}}) is
\* e(value), with value computed once
the(S) == CHOOSE x \in S : TRUE

\* text[a:b] for 1-based a and exclusive b
slice(text, a, b) == SubSeq(text, a, b - 1)

\* text[start:end] of Python for start, end >= 0: the bounds are clipped
pyslice(text, start, end) ==
    LET a == IF start > Len(text) THEN Len(text) ELSE start
        b == IF end > Len(text) THEN Len(text) ELSE end
    IN  IF a >= b THEN <<>> ELSE SubSeq(text, a + 1, b)

\* text.startswith(lit, pos), with the case folded when icase
starts_with(text, pos, lit, icase) ==
    /\ pos + Len(lit) - 1 <= Len(text)
    /\ \A j \in 1..Len(lit) :
          IF icase THEN lower(text[pos + j - 1]) = lower(lit[j])
          ELSE text[pos + j - 1] = lit[j]

\* the character is in the class; with re.I also when its other case is
in_class(c, cls, icase) ==
    \/ c \in cls
    \/ icase /\ (lower(c) \in cls \/ upper(c) \in cls)

\* items of a compiled pattern: a character class repeated one of `counts`
\* times (the counts in the order the matcher tries them), or one of the
\* literals `lits` (in the order of the alternation)
Rep(cls, counts) == [kind |-> "class", cls |-> cls, counts |-> counts, lits |-> <<>>]

Alt(lits) == [kind |-> "lits", cls |-> {}, counts |-> <<>>, lits |-> lits]

\* the counts of x{n}, x?, x+ and x* (greedy: the longest first)
Exactly(n) == <<n>>

Optional == <<1, 0>>

Plus == [i \in 1..MaxRep |-> MaxRep + 1 - i]

Star == [i \in 1..(MaxRep + 1) |-> MaxRep + 1 - i]

\* the backtracking matcher of re: the match of the items k.. of the
\* pattern at position pos, as <<pos, end of item k, ..., end of the last
\* item>>, or <<>> when there is none; an item takes its first alternative
\* that lets the rest of the pattern match
RECURSIVE match_here(_, _, _, _, _)
RECURSIVE try_item(_, _, _, _, _, _)
\* the alternative j of the item matches the text at pos
fits(item, icase, text, pos, j) ==
    IF item.kind = "class"
    THEN /\ pos + item.counts[j] - 1 <= Len(text)
         /\ \A i \in pos..(pos + item.counts[j] - 1) : in_class(text[i], item.cls, icase)
    ELSE starts_with(text, pos, item.lits[j], icase)

match_here(re, icase, k, text, pos) ==
    IF k > Len(re) THEN <<pos>>
    ELSE try_item(re, icase, k, text, pos, 1)

\* the first alternative from j on that matches at pos, 0 when none does
first_fit(item, icase, text, pos, j) ==
    LET n == IF item.kind = "class" THEN Len(item.counts) ELSE Len(item.lits)
    IN  IF \E a \in j..n : fits(item, icase, text, pos, a)
        THEN CHOOSE a \in j..n :
                 /\ fits(item, icase, text, pos, a)
                 /\ \A b \in j..(a - 1) : ~fits(item, icase, text, pos, b)
        ELSE 0

try_item(re, icase, k, text, pos, j) ==
    the({IF a = 0 THEN <<>>
        ELSE the({IF rest # <<>> THEN <<pos>> \o rest
                      ELSE try_item(re, icase, k, text, pos, a + 1) :
                     rest \in {match_here(re, icase, k + 1, text,
                             pos + (IF re[k].kind = "class" THEN re[k].counts[a]
                                    ELSE Len(re[k].lits[a])))}}) :
            a \in {first_fit(re[k], icase, text, pos, j)}})

\* pattern.search(text): the match at the leftmost position that has one
search(re, icase, text) ==
    the({the({IF starts = {} THEN <<>>
                 ELSE match_here(re, icase, 1, t,
                                 CHOOSE pos \in starts : \A p \in starts : pos <= p) :
                starts \in {{pos \in 1..(Len(t) + 1) : match_here(re, icase, 1, t, pos) # <<>>}}}) :
            t \in {text}})

\* match.group(0)
group0(text, m) == slice(text, m[1], m[Len(m)])

\* match.group(1) of a pattern whose group spans the items i..j
group(text, m, i, j) == slice(text, m[i], m[j + 1])

\* str.replace(old, new): every occurrence, left to right, not overlapping
RECURSIVE replace(_, _, _)
replace(text, old, new) ==
    the({IF old = <<>> \/ \A i \in 1..Len(t) : ~starts_with(t, i, old, FALSE) THEN t
        ELSE the({slice(t, 1, i) \o new
                     \o replace(slice(t, i + Len(old), Len(t) + 1), old, new) :
                     i \in {CHOOSE i \in 1..Len(t) :
                      /\ starts_with(t, i, old, FALSE)
                      /\ \A j \in 1..(i - 1) : ~starts_with(t, j, old, FALSE)}}) :
            t \in {text}})

\* str.strip()
RECURSIVE strip(_)
strip(text) ==
    the({IF t = <<>> THEN t
        ELSE IF t[1] \in Whitespace THEN strip(Tail(t))
        ELSE IF t[Len(t)] \in Whitespace THEN strip(slice(t, 1, Len(t)))
        ELSE t :
            t \in {text}})

\* the runs of whitespace of a stripped text, each turned into one space
RECURSIVE squeeze(_)
squeeze(text) ==
    the({IF \A i \in 1..Len(t) : t[i] \notin Whitespace THEN t
        ELSE the({the({slice(t, 1, i) \o <<32>> \o squeeze(slice(t, k, Len(t) + 1)) :
                         k \in {CHOOSE k \in (i + 1)..Len(t) :
                          /\ t[k] \notin Whitespace
                          /\ \A j \in i..(k - 1) : t[j] \in Whitespace}}) :
                     i \in {CHOOSE i \in 1..Len(t) :
                      /\ t[i] \in Whitespace
                      /\ \A j \in 1..(i - 1) : t[j] \notin Whitespace}}) :
            t \in {text}})

\* ' '.join(text.split())
join_split(text) == squeeze(strip(text))

\* text.split(sep) for a separator of one character
RECURSIVE split(_, _)
split(text, sep) ==
    the({IF \A i \in 1..Len(t) : t[i] # sep THEN <<t>>
        ELSE the({<<slice(t, 1, i)>> \o split(slice(t, i + 1, Len(t) + 1), sep) :
                     i \in {CHOOSE i \in 1..Len(t) : t[i] = sep /\ \A j \in 1..(i - 1) : t[j] # sep}}) :
            t \in {text}})

\* (?:руб|₽|RUB)
CURRENCY == Alt(<<<<1088, 1091, 1073>>, <<8381>>, <<82, 85, 66>>>>)

\* (\d+[\s.,]?\d*): a number, items 1..3 of the patterns that hold it
NUMBER == <<Rep(Digits, Plus), Rep(Whitespace \cup {46, 44}, Optional), Rep(Digits, Star)>>

\* \d{2}[./-]\d{2}[./-]\d{4}
DATE ==
    <<Rep(Digits, Exactly(2)), Rep({46, 47, 45}, Exactly(1)), Rep(Digits, Exactly(2)),
      Rep({46, 47, 45}, Exactly(1)), Rep(Digits, Exactly(4))>>

\* ------------------------------------------------------------------------
\* OCR Engine Adapter (ocr.py)
\* ------------------------------------------------------------------------

\* the value None where a str is expected (no str holds the code point -1)
NONE == <<-1>>

\* self.date_pattern
date_pattern == DATE

\* self.amount_pattern: (\d+[\s.,]?\d*)\s*(?:руб|₽|RUB)
amount_pattern == NUMBER \o <<Rep(Whitespace, Star), CURRENCY>>

\* self.inn_pattern: (?:ИНН|INN)[:\s]*(\d{10}|\d{12})
inn_pattern ==
    <<Alt(<<<<1048, 1053, 1053>>, <<73, 78, 78>>>>), Rep(Whitespace \cup {58}, Star), Rep(Digits, <<10, 12>>)>>

\* _postprocess_text, "Исправление типичных ошибок OCR": '0' becomes 'О'
\* (the Cyrillic letter) and '1' becomes 'I'
fix_digits(text) == replace(replace(text, <<48>>, <<1054>>), <<49>>, <<73>>)

\* _postprocess_text, the date: its separators become points
fix_date(text) ==
    the({IF date_match = <<>> THEN text
        ELSE the({replace(text, found,
                         replace(replace(found, <<47>>, <<46>>), <<45>>, <<46>>)) :
                     found \in {group0(text, date_match)}}) :
            date_match \in {search(date_pattern, FALSE, text)}})

\* _postprocess_text, the amount: "<amount> руб." with the spaces of the
\* amount dropped and its comma turned into a point
fix_amount(text) ==
    the({IF amount_match = <<>> THEN text
        ELSE replace(text, group0(text, amount_match),
                     replace(replace(group(text, amount_match, 1, 3), <<32>>, <<>>),
                             <<44>>, <<46>>) \o <<32, 1088, 1091, 1073, 46>>) :
            amount_match \in {search(amount_pattern, FALSE, text)}})

\* _postprocess_text, the tax id: "ИНН: <inn>"
fix_inn(text) ==
    the({IF inn_match = <<>> THEN text
        ELSE replace(text, group0(text, inn_match),
                     <<1048, 1053, 1053, 58, 32>> \o group(text, inn_match, 3, 3)) :
            inn_match \in {search(inn_pattern, FALSE, text)}})

\* _postprocess_text(text)
_postprocess_text(text) ==
    the({the({the({fix_inn(amounted) :
                    amounted \in {fix_amount(dated)}}) :
                dated \in {fix_date(fixed)}}) :
            fixed \in {fix_digits(join_split(text))}})

\* what the engine does on the crop of a region: reader.readtext and the
\* join of its pieces (or the annotation of the Google client), or an
\* exception (lines 83-96); the text is None when it raised
Read(text) == [raised |-> FALSE, text |-> text]

ReadError == [raised |-> TRUE, text |-> NONE]

\* recognize(image, region), given what the engine does on the region
recognize(read) ==
    IF read.raised THEN ReadError
    ELSE the({Read(text) :
                 text \in {_postprocess_text(read.text)}})

\* ------------------------------------------------------------------------
\* Field Extractor (data_extractor.py)
\* ------------------------------------------------------------------------

\* self.patterns: the compiled pattern, whether it has re.I, and the items
\* that its group spans
patterns ==
    [invoice_number |->
        [re |-> <<Alt(<<<<1057, 1095, 1077, 1090>>, <<73, 110, 118, 111, 105, 99, 101>>>>), Rep(Whitespace \cup {8470, 35}, Star),
                  Rep((65..90) \cup (1040..1071) \cup Digits \cup {45}, Plus)>>,
         icase |-> TRUE, i |-> 3, j |-> 3],
     date |->
        [re |-> <<Alt(<<<<1086, 1090>>, <<102, 114, 111, 109>>, <<>>>>), Rep(Whitespace, Star)>> \o DATE,
         icase |-> FALSE, i |-> 3, j |-> 7],
     total_amount |->
        [re |-> <<Alt(<<<<1048, 1090, 1086, 1075, 1086>>, <<84, 111, 116, 97, 108>>>>), Rep(Whitespace \cup {58}, Star)>>
                    \o NUMBER \o <<Rep(Whitespace, Star), CURRENCY>>,
         icase |-> TRUE, i |-> 3, j |-> 5],
     supplier_name |->
        [re |-> <<Alt(<<<<1055, 1086, 1089, 1090, 1072, 1074, 1097, 1080, 1082>>, <<83, 117, 112, 112, 108, 105, 101, 114>>>>), Rep(Whitespace \cup {58}, Star),
                  Rep(AnyChar \ {10}, Plus)>>,
         icase |-> TRUE, i |-> 3, j |-> 3],
     inn |->
        [re |-> <<Alt(<<<<1048, 1053, 1053>>, <<73, 78, 78>>>>), Rep(Whitespace \cup {58}, Star),
                  Rep(Digits, <<10, 12>>)>>,
         icase |-> TRUE, i |-> 3, j |-> 3],
     address |->
        [re |-> <<Alt(<<<<1040, 1076, 1088, 1077, 1089>>, <<65, 100, 100, 114, 101, 115, 115>>>>), Rep(Whitespace \cup {58}, Star),
                  Rep(AnyChar \ {10}, Plus)>>,
         icase |-> TRUE, i |-> 3, j |-> 3],
     payment_info |->
        [re |-> <<Alt(<<<<1056, 1077, 1082, 1074, 1080, 1079, 1080, 1090, 1099>>, <<80, 97, 121, 109, 101, 110, 116, 32, 73, 110, 102, 111>>>>), Rep(Whitespace \cup {58}, Star),
                  Rep(AnyChar \ {10}, Plus)>>,
         icase |-> TRUE, i |-> 3, j |-> 3]]

\* the digits of str(n)
RECURSIVE str_int(_)
str_int(n) ==
    the({IF v < 10 THEN <<48 + v>> ELSE str_int(v \div 10) \o <<48 + (v % 10)>> :
            v \in {n}})

\* int(digits), 0 for no digit
RECURSIVE int_of(_)
int_of(digits) ==
    the({IF d = <<>> THEN 0
        ELSE 10 * int_of(slice(d, 1, Len(d))) + (d[Len(d)] - 48) :
            d \in {digits}})

\* float(text) succeeds: digits with at most one point among them, spaces
\* around them allowed (the only numerals the patterns let through)
float_ok(text) ==
    the({/\ \A p \in 1..Len(t) : t[p] \in Digits \cup {46}
        /\ Cardinality({p \in 1..Len(t) : t[p] = 46}) <= 1
        /\ \E p \in 1..Len(t) : t[p] \in Digits :
            t \in {strip(text)}})

\* float(text): the number, as its integer part and its decimals (no zero
\* at the end)
RECURSIVE no_trailing_zero(_)
no_trailing_zero(digits) ==
    the({IF d # <<>> /\ d[Len(d)] = 48
        THEN no_trailing_zero(slice(d, 1, Len(d)))
        ELSE d :
            d \in {digits}})

float(text) ==
    the({LET p == IF \E q \in 1..Len(t) : t[q] = 46
                 THEN CHOOSE q \in 1..Len(t) : t[q] = 46
                 ELSE Len(t) + 1
        IN  [int |-> int_of(slice(t, 1, p)),
             frac |-> no_trailing_zero(slice(t, p + 1, Len(t) + 1))] :
            t \in {strip(text)}})

\* f"{x:.2f}" for a number of at most two decimals
format_2f(x) ==
    the({CASE Len(v.frac) = 0 -> str_int(v.int) \o <<46, 48, 48>>
          [] Len(v.frac) = 1 -> str_int(v.int) \o <<46>> \o v.frac \o <<48>>
          [] Len(v.frac) = 2 -> str_int(v.int) \o <<46>> \o v.frac :
            v \in {x}})

\* _normalize_date(date_str): the separators become points; strptime and
\* strftime of '%d.%m.%Y' give the same string back for a valid date of
\* two, two and four digits, and the except branch returns it as well
_normalize_date(date_str) == replace(replace(date_str, <<47>>, <<46>>), <<45>>, <<46>>)

\* _normalize_amount(amount_str)
_normalize_amount(amount_str) ==
    the({IF float_ok(cleaned) THEN format_2f(float(cleaned)) ELSE cleaned :
            cleaned \in {replace(replace(amount_str, <<32>>, <<>>), <<44>>, <<46>>)}})

\* _normalize_inn(inn_str): re.sub(r'\D', '', inn_str)
_normalize_inn(inn_str) == SelectSeq(inn_str, LAMBDA c : c \in Digits)

\* extract_data(text, region_type): the 'value' and the 'raw_text' of the
\* dict it returns (confidence is handed through)
extract_data(text, region_type) ==
    IF region_type \notin DOMAIN patterns
    THEN [value |-> NONE, raw_text |-> text]
    ELSE the({IF found = <<>> THEN [value |-> NONE, raw_text |-> text]
        ELSE the({[value |-> CASE region_type = "date" -> _normalize_date(value)
                              [] region_type = "total_amount" -> _normalize_amount(value)
                              [] region_type = "inn" -> _normalize_inn(value)
                              [] OTHER -> value,
                  raw_text |-> text] :
                     value \in {strip(group(text, found, patterns[region_type].i,
                              patterns[region_type].j))}}) :
                 found \in {search(patterns[region_type].re, patterns[region_type].icase, text)}})

\* ------------------------------------------------------------------------
\* Region Detector (detection.py)
\* ------------------------------------------------------------------------

\* the coordinates of the boxes of the model are floats: here multiples of
\* 1/Scale of a pixel
Scale == 2

\* conf > 0.5, the confidences counted in hundredths
CONF_THRESHOLD == 50

\* self.classes (the class ids start at 0)
classes ==
    <<"invoice_number", "date", "total_amount", "supplier_name", "inn",
      "items_table", "address", "payment_info", "logo">>

\* a Python list and a Python dict
list(items) == [type |-> "list", items |-> items]

dict(items) == [type |-> "dict", items |-> items]

\* int(x) of a float that is not negative
int(x) == x \div Scale

\* the candidates that pass the threshold and have the class, as the
\* lists [int(x1), int(y1), int(x2), int(y2)], in the order of the output
RECURSIVE boxes_of(_, _)
boxes_of(preds, class_name) ==
    IF preds = <<>> THEN <<>>
    ELSE LET pred == Head(preds)
         IN  (IF pred.conf > CONF_THRESHOLD /\ classes[pred.cls + 1] = class_name
              THEN <<<<int(pred.x1), int(pred.y1), int(pred.x2), int(pred.y2)>>>>
              ELSE <<>>) \o boxes_of(Tail(preds), class_name)

\* lambda box: (box[2] - box[0]) * (box[3] - box[1])
area(box) == (box[3] - box[1]) * (box[4] - box[2])

\* max of a list whose first element of maximal area is not kept
last_max(boxes) ==
    boxes[CHOOSE i \in 1..Len(boxes) :
              /\ \A j \in 1..Len(boxes) : area(boxes[j]) <= area(boxes[i])
              /\ \A j \in (i + 1)..Len(boxes) : area(boxes[j]) < area(boxes[i])]

\* max(boxes, key=lambda box: ...): the first box whose area is maximal
max(boxes) ==
    boxes[CHOOSE i \in 1..Len(boxes) :
              /\ \A j \in 1..Len(boxes) : area(boxes[j]) <= area(boxes[i])
              /\ \A j \in 1..(i - 1) : area(boxes[j]) < area(boxes[i])]

\* detect(image) with a loaded model, given results.xyxy[0] for the image
detect(preds) ==
    [class_name \in {classes[preds[i].cls + 1] :
                        i \in {a \in 1..Len(preds) : preds[a].conf > CONF_THRESHOLD}} |->
        the({list(max(boxes)) :
                boxes \in {boxes_of(preds, class_name)}})]

\* f'region_{i}' with the letters of a class name
region_name_of_class(i) == classes[i + 3]

\* f'region_{i}'
region_name(i) == <<"region_0", "region_1">>[i + 1]

\* _default_detector(image): the contours of the image whose area is
\* between min_area (0.001 of h * w) and max_area (0.5 of h * w), in the
\* order findContours gives them, each under the key region_<i> with its
\* bounding rectangle
_default_detector(image) ==
    the({[r \in {region_name(i - 1) : i \in 1..Len(valid_contours)} |->
            the({list(<<cnt.x, cnt.y, cnt.x + cnt.w, cnt.y + cnt.h>>) :
                    cnt \in {valid_contours[CHOOSE i \in 1..Len(valid_contours) :
                                               region_name(i - 1) = r]}})] :
            valid_contours \in
                {SelectSeq(image.contours,
                           LAMBDA cnt :
                               /\ image.shape[1] * image.shape[2] < 1000 * cnt.area
                               /\ 2 * cnt.area < image.shape[1] * image.shape[2])}})

\* detect(image): the detector by default when no model was loaded, else
\* the boxes chosen among the output of the model
detect_image(image) ==
    IF model = None THEN _default_detector(image) ELSE detect(image.preds)

\* ------------------------------------------------------------------------
\* Table Reconstructor (table_parser.py)
\* ------------------------------------------------------------------------

\* self.price_pattern: (\d+[\s.,]?\d*)\s*руб (self.amount_pattern is NUMBER)
price_pattern == NUMBER \o <<Rep(Whitespace, Star), Alt(<<<<1088, 1091, 1073>>>>)>>

\* a LineItem field for which nothing was parsed (None)
NoFloat == [int |-> -1, frac |-> <<>>]

\* float(match.group(1).replace(',', '.')) for the first number of a part,
\* None without a match; `raised` when float raises ValueError
number_of(pattern, part) ==
    the({IF found = <<>> THEN [raised |-> FALSE, value |-> NoFloat]
        ELSE the({IF float_ok(numeral) THEN [raised |-> FALSE, value |-> float(numeral)]
                 ELSE [raised |-> TRUE, value |-> NoFloat] :
                     numeral \in {replace(group(part, found, 1, 3), <<44>>, <<46>>)}}) :
            found \in {search(pattern, FALSE, part)}})

\* the parts of a line cut at the column positions
parts_of(text, col_positions) ==
    [i \in 1..(Len(col_positions) - 1) |->
        strip(pyslice(text, col_positions[i], col_positions[i + 1]))]

\* _parse_table_row(text, col_positions): `item` is <<>> for None and
\* <<the dict>> otherwise; `raised` when a float(...) raised
_parse_table_row(text, col_positions) ==
    the({IF Len(parts) < 3 THEN [raised |-> FALSE, item |-> <<>>]
        ELSE the({IF \E i \in 1..3 : numbers[i].raised
                 THEN [raised |-> TRUE, item |-> <<>>]
                 ELSE [raised |-> FALSE,
                       item |-> <<[name |-> parts[1], quantity |-> numbers[1].value,
                                   price |-> numbers[2].value,
                                   amount |-> numbers[3].value]>>] :
                     numbers \in {<<number_of(NUMBER, parts[2]), number_of(price_pattern, parts[3]),
                    number_of(NUMBER, parts[Len(parts)])>>}}) :
            parts \in {parts_of(text, col_positions)}})

\* the loop of parse_table over the lines i.. of the text (i from 0)
RECURSIVE parse_lines(_, _, _, _)
parse_lines(text_lines, i, rows, cols) ==
    IF i >= Len(text_lines) THEN [raised |-> "", items |-> <<>>]
    ELSE IF ~(i < Len(rows) - 1) THEN parse_lines(text_lines, i + 1, rows, cols)
    ELSE the({IF row.raised THEN [raised |-> "ValueError", items |-> <<>>]
             ELSE the({IF rest.raised # "" THEN rest
                      ELSE [raised |-> "", items |-> row.item \o rest.items] :
                          rest \in {parse_lines(text_lines, i + 1, rows, cols)}}) :
                 row \in {_parse_table_row(text_lines[i + 1], cols)}})

\* parse_table(image, table_region, ocr_text), given the rows and the
\* columns that _detect_table_structure finds in the crop of the image;
\* table_region['y1'] raises TypeError unless table_region is a dict
parse_table(structure, table_region, ocr_text) ==
    IF table_region.type # "dict"
    THEN [raised |-> "TypeError", items |-> <<>>]
    ELSE the({parse_lines(text_lines, 0, structure.rows, structure.cols) :
                 text_lines \in {split(ocr_text, 10)}})

\* ------------------------------------------------------------------------
\* Invoice Pipeline (invoice_processor.py)
\* ------------------------------------------------------------------------

\* results[region_type]['text'] if the region is in results, else None
text_of(results, region_type) ==
    IF region_type \in DOMAIN results THEN results[region_type].text ELSE NONE

\* extract_structured_data(results); the entry of a region holds 'text',
\* 'bbox' and parsed_items: <<>> without the key 'parsed_items', else
\* <<the list>>
extract_structured_data(results) ==
    [invoice_number |-> text_of(results, "invoice_number"),
     date |-> text_of(results, "date"),
     total_amount |-> text_of(results, "total_amount"),
     supplier |-> [name |-> text_of(results, "supplier_name"),
                   inn |-> text_of(results, "inn"),
                   address |-> text_of(results, "address")],
     items |-> IF "items_table" \in DOMAIN results
                  /\ results["items_table"].parsed_items # <<>>
               THEN results["items_table"].parsed_items[1]
               ELSE <<>>,
     payment_info |-> text_of(results, "payment_info")]

\* the scalar field of the structured data that extract_structured_data
\* fills from the region
ScalarRegions ==
    {"invoice_number", "date", "total_amount", "supplier_name", "inn", "address",
     "payment_info"}

field(data, region_type) ==
    CASE region_type = "invoice_number" -> data.invoice_number
      [] region_type = "date" -> data.date
      [] region_type = "total_amount" -> data.total_amount
      [] region_type = "supplier_name" -> data.supplier.name
      [] region_type = "inn" -> data.supplier.inn
      [] region_type = "address" -> data.supplier.address
      [] region_type = "payment_info" -> data.payment_info

\* An image file, by what the libraries do on it: cv2.imread reads it or
\* not, the model gives `preds` for it, the OCR engine gives ocr[region]
\* on the crop of a region and _detect_table_structure gives `structure`.

\* the body of process_invoice after the image is loaded, up to
\* extract_structured_data: what is raised ("" for nothing), the results
\* and the structured data
\* the end of the body, from the table on
finish_pipeline(image, all_results) ==
    the({IF "items_table" \notin DOMAIN results
    THEN [raised |-> "", results |-> results, data |-> extract_structured_data(results)]
    ELSE the({IF parsed.raised # "" THEN [raised |-> parsed.raised]
             ELSE the({[raised |-> "", results |-> with_items,
                       data |-> extract_structured_data(with_items)] :
                          with_items \in {[results EXCEPT !["items_table"].parsed_items = <<parsed.items>>]}}) :
                 parsed \in {parse_table(image.structure, results["items_table"].bbox,
                          results["items_table"].text)}}) :
            results \in {all_results}})

run_pipeline(image) ==
    the({the({IF \E r \in DOMAIN detections : texts[r].raised
            THEN [raised |-> "Exception"]
            ELSE finish_pipeline(image,
                     [r \in DOMAIN detections |->
                         [text |-> texts[r].text, bbox |-> detections[r],
                          parsed_items |-> <<>>]]) :
                texts \in {[r \in DOMAIN detections |-> recognize(image.ocr[r])]}}) :
            detections \in {detect_image(image)}})

\* cv2.imread(image_path) returns an image (not None)
readable(image_path) == image_path \in DOMAIN images /\ images[image_path].readable

\* process_invoice(image_path) as a function: ValueError for an image that
\* cannot be loaded
run_invoice(image_path) ==
    IF ~readable(image_path) THEN [raised |-> "ValueError"]
    ELSE run_pipeline(images[image_path])

\* _save_results(image_path, structured_data, raw_results): the file
\* <stem>_<timestamp>.json is written (or written again)
_save_results(dir, image_path, out) ==
    [k \in DOMAIN dir \cup {<<image_path[1], now>>} |->
        IF k = <<image_path[1], now>>
        THEN [structured_data |-> out.data, raw_results |-> out.results,
              processing_time |-> now, source_image |-> image_path]
        ELSE dir[k]]

\* process_invoice(image_path, visualize=False, save_results=True)
process_invoice(image_path) ==
    /\ \E out \in {run_invoice(image_path)} :
          IF out.raised # ""
          THEN /\ call' = [op |-> "process_invoice", image_path |-> image_path,
                           raised |-> out.raised]
               /\ UNCHANGED json_dir
          ELSE /\ json_dir' = _save_results(json_dir, image_path, out)
               /\ call' = [op |-> "process_invoice", image_path |-> image_path,
                           raised |-> "", ret |-> out.data]
    /\ UNCHANGED <<images, images_dir, model>>

\* the directory of the image files, and one that does not exist
ImageDir == "invoices"

MissingDir == "missing"

\* image_dir.glob("*.jpg")
glob_jpg == {p \in DOMAIN images : p[2] = "jpg"}

\* the files after the process_invoice call on the first of the paths
save_first(dir, paths) ==
    the({IF out.raised = "" THEN _save_results(dir, Head(paths), out) ELSE dir :
            out \in {run_invoice(Head(paths))}})

\* the files written by the process_invoice calls of a batch
RECURSIVE save_all(_, _)
save_all(dir, paths) ==
    IF paths = <<>> THEN dir
    ELSE the({save_all(d, Tail(paths)) :
                 d \in {save_first(dir, paths)}})

\* batch_process without the try / except around process_invoice
batch_process_unguarded(image_dir) ==
    /\ IF image_dir # ImageDir \/ \E p \in glob_jpg : run_invoice(p).raised # ""
       THEN /\ call' = [op |-> "batch_process", image_dir |-> image_dir,
                        raised |-> "ValueError"]
            /\ UNCHANGED json_dir
       ELSE /\ json_dir' = save_all(json_dir, SetToSeq(glob_jpg))
            /\ call' = [op |-> "batch_process", image_dir |-> image_dir, raised |-> "",
                        ret |-> [p \in glob_jpg |-> run_invoice(p).data]]
    /\ UNCHANGED <<images, images_dir, model>>

\* batch_process(image_dir, visualize=False)
batch_process(image_dir) ==
    /\ IF image_dir # ImageDir
       THEN /\ call' = [op |-> "batch_process", image_dir |-> image_dir,
                        raised |-> "ValueError"]
            /\ UNCHANGED json_dir
       ELSE /\ json_dir' = save_all(json_dir, SetToSeq(glob_jpg))
            /\ call' = [op |-> "batch_process", image_dir |-> image_dir, raised |-> "",
                        ret |-> [p \in glob_jpg |->
                                    the({IF out.raised # "" THEN [error |-> out.raised]
                                        ELSE out.data :
                                            out \in {run_invoice(p)}})]]
    /\ UNCHANGED <<images, images_dir, model>>

\* ------------------------------------------------------------------------
\* The inputs of the stages and of the pipeline
\* ------------------------------------------------------------------------

\* "Итого: 1 500,00 руб"
ITOGO_1500 ==
    <<1048, 1090, 1086, 1075, 1086, 58, 32, 49, 32, 53, 48, 48, 44, 48, 48,
      32, 1088, 1091, 1073>>

\* "1 234,50 руб"
AMOUNT_1234 ==
    <<49, 32, 50, 51, 52, 44, 53, 48, 32, 1088, 1091, 1073>>

\* "Итого: 1 234,50 руб"
ITOGO_1234 ==
    <<1048, 1090, 1086, 1075, 1086, 58, 32, 49, 32, 50, 51, 52, 44, 53, 48,
      32, 1088, 1091, 1073>>

\* "Итого: 1500,00 руб"
ITOGO_PLAIN ==
    <<1048, 1090, 1086, 1075, 1086, 58, 32, 49, 53, 48, 48, 44, 48, 48, 32,
      1088, 1091, 1073>>

\* "Total: 7 RUB"
TOTAL_RUB ==
    <<84, 111, 116, 97, 108, 58, 32, 55, 32, 82, 85, 66>>

\* "Счет № 17"
INVOICE_17 ==
    <<1057, 1095, 1077, 1090, 32, 8470, 32, 49, 55>>

\* "ИНН 7707083893"
INN_TEXT ==
    <<1048, 1053, 1053, 32, 55, 55, 48, 55, 48, 56, 51, 56, 57, 51>>

\* "от 25/12/2023"
DATE_TEXT ==
    <<1086, 1090, 32, 50, 53, 47, 49, 50, 47, 50, 48, 50, 51>>

\* "Поставщик: ООО Ромашка"
SUPPLIER_TEXT ==
    <<1055, 1086, 1089, 1090, 1072, 1074, 1097, 1080, 1082, 58, 32, 1054,
      1054, 1054, 32, 1056, 1086, 1084, 1072, 1096, 1082, 1072>>

\* "Наименование Количество Цена Сумма"
HEADER ==
    <<1053, 1072, 1080, 1084, 1077, 1085, 1086, 1074, 1072, 1085, 1080, 1077,
      32, 1050, 1086, 1083, 1080, 1095, 1077, 1089, 1090, 1074, 1086, 32,
      1062, 1077, 1085, 1072, 32, 1057, 1091, 1084, 1084, 1072>>

\* "Болт М8      2,5        10 руб 25"
ROW_BOLT ==
    <<1041, 1086, 1083, 1090, 32, 1052, 56, 32, 32, 32, 32, 32, 32, 50, 44,
      53, 32, 32, 32, 32, 32, 32, 32, 32, 49, 48, 32, 1088, 1091, 1073, 32,
      50, 53>>

\* "Гайка        1 234      5 руб  6"
ROW_THOUSANDS ==
    <<1043, 1072, 1081, 1082, 1072, 32, 32, 32, 32, 32, 32, 32, 32, 49, 32,
      50, 51, 52, 32, 32, 32, 32, 32, 32, 53, 32, 1088, 1091, 1073, 32, 32,
      54>>

\* the table text of two lines: the header, then a row
HEADER_AND_ROW == HEADER \o <<10>> \o ROW_BOLT

\* the texts given to recognize and to extract_data
Texts ==
    {<<>>, ITOGO_1500, AMOUNT_1234, ITOGO_1234, ITOGO_PLAIN, TOTAL_RUB, INVOICE_17,
     INN_TEXT, DATE_TEXT, SUPPLIER_TEXT, HEADER}

\* the region types given to extract_data: the classes of the detector and
\* a region of the fallback detector
RegionTypes == {classes[i] : i \in 1..Len(classes)} \cup {"region_0"}

\* at most MaxPreds candidates in the output of the model
MaxPreds == 2

\* the candidates of the model: boxes of 1.5 x 1.5, 1 x 2 and 2 x 1 pixels
\* for Scale = 2, below and above the threshold, of two classes
Candidates ==
    {[x1 |-> 0, y1 |-> 0, x2 |-> b[1], y2 |-> b[2], conf |-> c, cls |-> k] :
        b \in {<<3, 3>>, <<2, 4>>, <<4, 2>>}, c \in {CONF_THRESHOLD, 90}, k \in {2, 5}}

PredLists == UNION {[1..n -> Candidates] : n \in 0..MaxPreds}

\* what the OCR engine does on a region
Reads == {ReadError} \cup {Read(text) : text \in Texts}

\* the rows and the columns found in the image of a table
Structures ==
    {[rows |-> r, cols |-> c] :
        r \in {<<>>, <<0>>, <<0, 20>>, <<0, 20, 40>>},
        c \in {<<>>, <<0, 13, 24>>, <<0, 13, 24, 29>>, <<0, 13, 24, 29, 34>>}}

\* the table region as the dict of the signature of parse_table, and as
\* the list that detect returns
TableRegions ==
    {dict([x1 |-> 0, y1 |-> 0, x2 |-> 40, y2 |-> 40]), list(<<0, 0, 40, 40>>)}

TableTexts == {<<>>, HEADER, HEADER_AND_ROW, ROW_BOLT, ROW_THOUSANDS}

\* the results given to extract_structured_data: some regions, each with
\* a text that is empty or not
ResultMaps ==
    UNION {[regions -> {[text |-> text, bbox |-> list(<<0, 0, 1, 1>>), parsed_items |-> <<>>] :
                           text \in {<<>>, INVOICE_17}}] :
              regions \in SUBSET {"invoice_number", "total_amount", "inn"}}

\* a call of a stage that is to be made
StageCalls ==
    {[op |-> "detect", preds |-> preds, done |-> FALSE] : preds \in PredLists}
        \cup {[op |-> "recognize", read |-> read, done |-> FALSE] : read \in Reads}
        \cup {[op |-> "extract_data", text |-> text, region_type |-> region_type,
               done |-> FALSE] : text \in Texts, region_type \in RegionTypes}
        \cup {[op |-> "parse_table", structure |-> structure,
               table_region |-> table_region, ocr_text |-> ocr_text, done |-> FALSE] :
                 structure \in Structures, table_region \in TableRegions,
                 ocr_text \in TableTexts}
        \cup {[op |-> "extract_structured_data", results |-> results, done |-> FALSE] :
                 results \in ResultMaps}

\* ------------------------------------------------------------------------
\* The stages, each applied to an argument chosen at the start
\* ------------------------------------------------------------------------

InitStages ==
    /\ InitQueue
    /\ images = [p \in {} |-> 0]
    /\ json_dir = [k \in {} |-> 0]
    /\ images_dir = [k \in {} |-> 0]
    /\ model = YOLOv5
    /\ call \in StageCalls

Detect ==
    /\ call.op = "detect" /\ ~call.done
    /\ call' = [op |-> "detect", preds |-> call.preds, done |-> TRUE,
                ret |-> detect(call.preds)]
    /\ UNCHANGED <<images, json_dir, images_dir, model>>

Recognize ==
    /\ call.op = "recognize" /\ ~call.done
    /\ call' = [op |-> "recognize", read |-> call.read, done |-> TRUE,
                ret |-> recognize(call.read)]
    /\ UNCHANGED <<images, json_dir, images_dir, model>>

ExtractData ==
    /\ call.op = "extract_data" /\ ~call.done
    /\ call' = [op |-> "extract_data", text |-> call.text,
                region_type |-> call.region_type, done |-> TRUE,
                ret |-> extract_data(call.text, call.region_type)]
    /\ UNCHANGED <<images, json_dir, images_dir, model>>

ParseTable ==
    /\ call.op = "parse_table" /\ ~call.done
    /\ call' = [op |-> "parse_table", structure |-> call.structure,
                table_region |-> call.table_region, ocr_text |-> call.ocr_text,
                done |-> TRUE,
                ret |-> parse_table(call.structure, call.table_region, call.ocr_text)]
    /\ UNCHANGED <<images, json_dir, images_dir, model>>

ExtractStructuredData ==
    /\ call.op = "extract_structured_data" /\ ~call.done
    /\ call' = [op |-> "extract_structured_data", results |-> call.results,
                done |-> TRUE, ret |-> extract_structured_data(call.results)]
    /\ UNCHANGED <<images, json_dir, images_dir, model>>

NextStages ==
    \/ Detect /\ UNCHANGED <<vars, threads>>
    \/ Recognize /\ UNCHANGED <<vars, threads>>
    \/ ExtractData /\ UNCHANGED <<vars, threads>>
    \/ ParseTable /\ UNCHANGED <<vars, threads>>
    \/ ExtractStructuredData /\ UNCHANGED <<vars, threads>>

SpecStages == InitStages /\ [][NextStages]_<<vars, pvars>>

\* ------------------------------------------------------------------------
\* The InvoiceProcessor on a directory of image files
\* ------------------------------------------------------------------------

\* the files of the directory, and a path to no file
Paths == {<<"a", "jpg">>, <<"b", "jpg">>}

MissingPath == <<"c", "jpg">>

\* the table structure of the images
TableStructure == [rows |-> <<0, 20, 40>>, cols |-> <<0, 13, 24, 29, 34>>]

\* the outputs of the model on the images: nothing; a total_amount and an
\* invoice_number region; an items_table and a total_amount region
ImagePreds ==
    {<<>>,
     <<[x1 |-> 0, y1 |-> 0, x2 |-> 8, y2 |-> 4, conf |-> 90, cls |-> 2],
       [x1 |-> 0, y1 |-> 8, x2 |-> 8, y2 |-> 12, conf |-> 90, cls |-> 0]>>,
     <<[x1 |-> 0, y1 |-> 0, x2 |-> 40, y2 |-> 40, conf |-> 90, cls |-> 5],
       [x1 |-> 0, y1 |-> 44, x2 |-> 8, y2 |-> 48, conf |-> 90, cls |-> 2]>>}

\* what the OCR engine does on a region of an image: on the table, and on
\* another region
ImageReads(region) ==
    IF region = "items_table" THEN {Read(HEADER_AND_ROW)}
    ELSE {ReadError, Read(<<>>), Read(ITOGO_1500)}

UnreadableImage ==
    [readable |-> FALSE, preds |-> <<>>, ocr |-> [r \in {} |-> ReadError],
     structure |-> TableStructure]

Images ==
    {UnreadableImage} \cup
    UNION {{[readable |-> TRUE, preds |-> preds, ocr |-> ocr, structure |-> TableStructure] :
               ocr \in {f \in [DOMAIN detect(preds) ->
                                 UNION {ImageReads(r) : r \in DOMAIN detect(preds)}] :
                           \A r \in DOMAIN f : f[r] \in ImageReads(r)}} :
           preds \in ImagePreds}

InitImages ==
    /\ InitQueue
    /\ images \in [Paths -> Images]
    /\ json_dir = [k \in {} |-> 0]
    /\ images_dir = [k \in {} |-> 0]
    /\ model = YOLOv5
    /\ call = NoCall

NextProcessor ==
    \/ \E image_path \in Paths \cup {MissingPath} :
          process_invoice(image_path) /\ UNCHANGED <<vars, threads>>
    \/ \E image_dir \in {ImageDir, MissingDir} :
          batch_process(image_dir) /\ UNCHANGED <<vars, threads>>
    \/ Tick /\ UNCHANGED <<pvars, threads>>

SpecProcessor == InitImages /\ [][NextProcessor]_<<vars, pvars>>

\* ------------------------------------------------------------------------
\* process_invoice, stage by stage
\* ------------------------------------------------------------------------

\* a mapping with no key
Empty == [r \in {} |-> 0]

\* the call is about to run the stage pc
stage(pc) == call.op = "process_invoice" /\ call.pc = pc

\* the stage that follows the parsing of the table: `if visualize`
after_table == IF call.visualize THEN "visualize" ELSE "extract_structured_data"

\* process_invoice(image_path, visualize, save_results) is called, once
process_invoice_call(image_path, visualize, save_results) ==
    /\ call = NoCall
    /\ call' = [op |-> "process_invoice", image_path |-> image_path,
                visualize |-> visualize, save_results |-> save_results,
                pc |-> "load", done |-> <<>>, raised |-> "",
                detections |-> Empty, results |-> Empty, data |-> Empty]
    /\ UNCHANGED <<images, json_dir, images_dir, model>>

\* lines 76-81: cv2.imread, ValueError for an image that cannot be loaded
process_invoice_load ==
    /\ stage("load")
    /\ call' = IF readable(call.image_path)
               THEN [call EXCEPT !.pc = "detect", !.done = Append(@, "load")]
               ELSE [call EXCEPT !.pc = "raised", !.done = Append(@, "load"),
                                 !.raised = "ValueError"]
    /\ UNCHANGED <<images, json_dir, images_dir, model>>

\* lines 83-85: self.detector.detect(image)
process_invoice_detect ==
    /\ stage("detect")
    /\ call' = [call EXCEPT !.pc = "recognize", !.done = Append(@, "detect"),
                            !.detections = detect_image(images[call.image_path])]
    /\ UNCHANGED <<images, json_dir, images_dir, model>>

\* lines 87-95: the loop of self.ocr.recognize over the regions, then
\* `if 'items_table' in results`
process_invoice_recognize ==
    /\ stage("recognize")
    /\ \E texts \in {[r \in DOMAIN call.detections |->
                        recognize(images[call.image_path].ocr[r])]} :
          call' = IF \E r \in DOMAIN texts : texts[r].raised
                  THEN [call EXCEPT !.pc = "raised", !.done = Append(@, "recognize"),
                                    !.raised = "Exception"]
                  ELSE [call EXCEPT
                           !.pc = IF "items_table" \in DOMAIN texts THEN "parse_table"
                                  ELSE after_table,
                           !.done = Append(@, "recognize"),
                           !.results = [r \in DOMAIN texts |->
                                           [text |-> texts[r].text,
                                            bbox |-> call.detections[r],
                                            parsed_items |-> <<>>]]]
    /\ UNCHANGED <<images, json_dir, images_dir, model>>

\* lines 97-105: self.table_parser.parse_table
process_invoice_parse_table ==
    /\ stage("parse_table")
    /\ \E parsed \in {parse_table(images[call.image_path].structure,
                                  call.results["items_table"].bbox,
                                  call.results["items_table"].text)} :
          call' = IF parsed.raised # ""
                  THEN [call EXCEPT !.pc = "raised", !.done = Append(@, "parse_table"),
                                    !.raised = parsed.raised]
                  ELSE [call EXCEPT !.pc = after_table,
                                    !.done = Append(@, "parse_table"),
                                    !.results["items_table"].parsed_items =
                                        <<parsed.items>>]
    /\ UNCHANGED <<images, json_dir, images_dir, model>>

\* lines 107-117: visualize_detections; with save_results the picture is
\* written to <stem>_<timestamp>_processed.jpg and its path is put into
\* results
process_invoice_visualize ==
    /\ stage("visualize")
    /\ IF call.save_results
       THEN \E vis_path \in {<<call.image_path[1], now>>} :
              /\ images_dir' = [k \in DOMAIN images_dir \cup {vis_path} |->
                                   IF k = vis_path THEN call.image_path
                                   ELSE images_dir[k]]
              /\ call' = [call EXCEPT
                             !.pc = "extract_structured_data",
                             !.done = Append(@, "visualize"),
                             !.results = [r \in DOMAIN call.results
                                                   \cup {"visualization_path"} |->
                                             IF r = "visualization_path" THEN vis_path
                                             ELSE call.results[r]]]
       ELSE /\ call' = [call EXCEPT !.pc = "extract_structured_data",
                                    !.done = Append(@, "visualize")]
            /\ UNCHANGED images_dir
    /\ UNCHANGED <<images, json_dir, model>>

\* lines 119-120: self.extract_structured_data(results), then
\* `if save_results`
process_invoice_extract ==
    /\ stage("extract_structured_data")
    /\ call' = [call EXCEPT
                   !.pc = IF call.save_results THEN "_save_results" ELSE "return",
                   !.done = Append(@, "extract_structured_data"),
                   !.data = extract_structured_data(call.results)]
    /\ UNCHANGED <<images, json_dir, images_dir, model>>

\* lines 122-124: self._save_results(image_path, structured_data, results)
process_invoice_save ==
    /\ stage("_save_results")
    /\ json_dir' = _save_results(json_dir, call.image_path,
                                 [data |-> call.data, results |-> call.results])
    /\ call' = [call EXCEPT !.pc = "return", !.done = Append(@, "_save_results")]
    /\ UNCHANGED <<images, images_dir, model>>

\* lines 126-127: return structured_data
process_invoice_return ==
    /\ stage("return")
    /\ call' = [call EXCEPT !.pc = "returned", !.done = Append(@, "return")]
    /\ UNCHANGED <<images, json_dir, images_dir, model>>

NextSteps ==
    \/ \E image_path \in Paths \cup {MissingPath}, visualize \in BOOLEAN,
          save_results \in BOOLEAN :
          process_invoice_call(image_path, visualize, save_results)
              /\ UNCHANGED <<vars, threads>>
    \/ process_invoice_load /\ UNCHANGED <<vars, threads>>
    \/ process_invoice_detect /\ UNCHANGED <<vars, threads>>
    \/ process_invoice_recognize /\ UNCHANGED <<vars, threads>>
    \/ process_invoice_parse_table /\ UNCHANGED <<vars, threads>>
    \/ process_invoice_visualize /\ UNCHANGED <<vars, threads>>
    \/ process_invoice_extract /\ UNCHANGED <<vars, threads>>
    \/ process_invoice_save /\ UNCHANGED <<vars, threads>>
    \/ process_invoice_return /\ UNCHANGED <<vars, threads>>
    \/ Tick /\ UNCHANGED <<pvars, threads>>

SpecSteps == InitImages /\ [][NextSteps]_tvars

\* ------------------------------------------------------------------------
\* The InvoiceProcessor whose detector has a model, or has none
\* ------------------------------------------------------------------------

\* the contours findContours gives on the images (40 x 50 pixels): none;
\* one that is too small; one that is too large; one of the right size;
\* two of the right size after one that is too small
ImageContours ==
    {<<>>,
     <<[area |-> 2, x |-> 0, y |-> 0, w |-> 2, h |-> 1]>>,
     <<[area |-> 1000, x |-> 0, y |-> 0, w |-> 40, h |-> 25]>>,
     <<[area |-> 32, x |-> 0, y |-> 0, w |-> 8, h |-> 4]>>,
     <<[area |-> 2, x |-> 0, y |-> 0, w |-> 2, h |-> 1],
       [area |-> 32, x |-> 0, y |-> 0, w |-> 8, h |-> 4],
       [area |-> 30, x |-> 0, y |-> 44, w |-> 8, h |-> 4]>>}

\* what the OCR engine does on the regions of these images: on the first an
\* error, a total, or the lines of a table; on the second a number
FallbackReads(region) ==
    IF region = "region_0" THEN {ReadError, Read(ITOGO_1500), Read(HEADER_AND_ROW)}
    ELSE {Read(INVOICE_17)}

\* the images, as the detector by default and the OCR engine see them
FallbackImages ==
    {UnreadableImage} \cup
    UNION {{[readable |-> TRUE, preds |-> <<>>, ocr |-> ocr, structure |-> TableStructure,
             shape |-> <<50, 40>>, contours |-> contours] :
               ocr \in {f \in [DOMAIN _default_detector([shape |-> <<50, 40>>,
                                                          contours |-> contours]) ->
                                 UNION {FallbackReads(region_name(i - 1)) : i \in 1..2}] :
                           \A r \in DOMAIN f : f[r] \in FallbackReads(r)}} :
           contours \in ImageContours}

\* an image on which a loaded model finds a table and a total, and
\* findContours one contour of the right size
TableImage ==
    [readable |-> TRUE,
     preds |-> <<[x1 |-> 0, y1 |-> 0, x2 |-> 40, y2 |-> 40, conf |-> 90, cls |-> 5],
                 [x1 |-> 0, y1 |-> 44, x2 |-> 8, y2 |-> 48, conf |-> 90, cls |-> 2]>>,
     ocr |-> [r \in {"items_table", "total_amount", "region_0"} |->
                 IF r = "total_amount" THEN Read(ITOGO_1500) ELSE Read(HEADER_AND_ROW)],
     structure |-> TableStructure,
     shape |-> <<50, 40>>,
     contours |-> <<[area |-> 800, x |-> 0, y |-> 0, w |-> 20, h |-> 40]>>]

\* InvoiceProcessor.__init__ with a model file that loads, or with no model
\* file at the path of the weights
InitDetector ==
    /\ InitQueue
    /\ images \in [Paths -> FallbackImages \cup {TableImage}]
    /\ json_dir = [k \in {} |-> 0]
    /\ images_dir = [k \in {} |-> 0]
    /\ model \in {None, YOLOv5}
    /\ call = NoCall

SpecDetector == InitDetector /\ [][NextSteps]_tvars



\* ------------------------------------------------------------------------
\* Properties
\* ------------------------------------------------------------------------

\* the task of self.tasks with this id
task(id) == heap[tasks[id]]

\* task.retries, 0 while the attribute is not set
retries(t) == IF has_retries(t) THEN t.retries ELSE 0

\* the file of the task holds the task as it is in memory
persisted(files, t) ==
    /\ t.id \in DOMAIN files
    /\ json_valid(files[t.id])
    /\ load_task(files[t.id]) = t

\* the task table, as a caller sees it
table ==
    [id \in DOMAIN tasks |->
        [type |-> task(id).type, data |-> task(id).data, status |-> task(id).status,
         result |-> task(id).result, error |-> task(id).error]]

\* number of tasks of the table that have status s
live(s) == Cardinality({id \in DOMAIN tasks : task(id).status = s})

\* number of tasks of the table that have type ty
live_of_type(ty) == Cardinality({id \in DOMAIN tasks : task(id).type = ty})

\* C1: once the status of a task is Completed or Failed, no queue operation
\* changes it to a different value.
C1_TerminalAbsorbing ==
    [][\A id \in DOMAIN tasks :
          (task(id).status \in {COMPLETED, FAILED} /\ id \in DOMAIN tasks')
              => heap'[tasks'[id]].status = task(id).status]_vars

\* C2: fail_task(id, error) on an existing task adds 1 to its retries and
\* records the error; below max_retries the task becomes Pending and the
\* retries statistic grows by 1, otherwise it becomes Failed and the failed
\* statistic grows by 1; the call returns True.
C2_FailTask ==
    [][\A id \in DOMAIN tasks, error \in Errors :
          fail_task(id, error) =>
              /\ last'.ret = "True"
              /\ retries(heap'[tasks'[id]]) = retries(task(id)) + 1
              /\ heap'[tasks'[id]].error = error
              /\ IF retries(heap'[tasks'[id]]) < max_retries
                 THEN /\ heap'[tasks'[id]].status = PENDING
                      /\ stats'.retries = stats.retries + 1
                 ELSE /\ heap'[tasks'[id]].status = FAILED
                      /\ stats'.failed = stats.failed + 1]_vars

\* C3: a task that is added and then failed max_retries times in a row with
\* fail_task has status Failed and retries = max_retries.
C3_BoundedRetries ==
    \A id \in DOMAIN tasks :
        (last.op = "fail_task" /\ last.id = id /\ last.n = max_retries)
            => (task(id).status = FAILED /\ retries(task(id)) = max_retries)

\* C4: when the table holds max_size tasks or more, add_task returns None,
\* adds no task to the table or to the store and leaves stats["total"] as
\* it is.
C4_CapacityRejection ==
    [][\A task_type \in TaskTypes, data \in Payloads :
          (add_task(task_type, data) /\ Cardinality(DOMAIN tasks) >= max_size)
              => /\ last'.ret = "None"
                 /\ DOMAIN tasks' = DOMAIN tasks
                 /\ task_files' = task_files
                 /\ stats'.total = stats.total]_vars

\* C5: when the table holds fewer than max_size tasks, add_task returns an
\* id, the new task is in the table with status Pending and no result and
\* no error, its record is in the store and stats["total"] grows by 1.
C5_CapacityAcceptance ==
    [][\A task_type \in TaskTypes, data \in Payloads :
          (add_task(task_type, data) /\ Cardinality(DOMAIN tasks) < max_size)
              => /\ last'.ret = "id"
                 /\ last'.id \in DOMAIN tasks'
                 /\ heap'[tasks'[last'.id]].status = PENDING
                 /\ heap'[tasks'[last'.id]].result = None
                 /\ heap'[tasks'[last'.id]].error = None
                 /\ last'.id \in DOMAIN task_files'
                 /\ stats'.total = stats.total + 1]_vars

\* C6: the id that a successful add_task returns is the id of no task that
\* is in the table when it is called.
C6_IdUniqueness ==
    [][\A task_type \in TaskTypes, data \in Payloads :
          (add_task(task_type, data) /\ last'.ret = "id")
              => last'.id \notin DOMAIN tasks]_vars

\* C7: complete_task(id, result) on a task in status Processing sets the
\* status to Completed, stores the result, adds 1 to stats["completed"],
\* persists the task and returns True.
C7_CompleteTask ==
    [][\A id \in DOMAIN tasks, result \in Results :
          (complete_task(id, result) /\ task(id).status = PROCESSING)
              => /\ heap'[tasks'[id]].status = COMPLETED
                 /\ heap'[tasks'[id]].result = result
                 /\ stats'.completed = stats.completed + 1
                 /\ persisted(task_files', heap'[tasks'[id]])
                 /\ last'.ret = "True"]_vars

\* C8: a QueueManager constructed again on the same directory has the task
\* table (ids, and per id the type, payload, status, result and error) and
\* the statistics that the queue had before.
C8_RestartRecovery ==
    [][Restart => (table' = table /\ stats' = stats)]_vars

\* C9: the counts by status of get_queue_stats and of get_stats are the
\* numbers of tasks of the table with that status, and the counts by type
\* of get_stats are the numbers of tasks of the table of that type.
C9_StatsConsistency ==
    /\ lock = "free" => \A s \in TaskStatus : get_queue_stats.status[s] = live(s)
    /\ \A s \in TaskStatus : get_stats.count[s] = live(s)
    /\ \A ty \in TaskTypes :
          IF ty \in DOMAIN get_stats.by_type
          THEN get_stats.by_type[ty]["total"] = live_of_type(ty)
          ELSE live_of_type(ty) = 0

\* C10: cleanup_tasks(max_age) removes no task whose status is Pending or
\* Processing, whatever its age: such a task is not selected for removal
\* and is in the table afterwards with the fields it had.
C10_CleanupKeepsActive ==
    [][\A max_age \in MaxAges :
          cleanup_tasks(max_age) =>
              \A id \in DOMAIN tasks :
                  task(id).status \in {PENDING, PROCESSING}
                      => /\ id \in DOMAIN tasks'
                         /\ heap'[tasks'[id]] = task(id)
                         /\ id \notin blocked']_vars

\* a cleanup_tasks call that found an expired terminal task, made while the
\* table held a Pending or Processing task older than max_age
C10_Witness ==
    /\ last.op = "cleanup_tasks"
    /\ blocked # {}
    /\ \E id \in DOMAIN tasks :
          /\ task(id).status \in {PENDING, PROCESSING}
          /\ now - task(id).updated_at > last.age

\* C11: complete_task, fail_task, update_task and remove_task called with an
\* id that is not in the task table return False and leave the task table,
\* the statistics and the files of the store as they are.
C11_TaskNotFound ==
    [][\A id \in CallIds \ DOMAIN tasks :
          (\/ \E result \in Results : complete_task(id, result)
           \/ \E error \in Errors : fail_task(id, error)
           \/ \E a \in UpdateArgs : update_task(id, a[1], a[2], a[3])
           \/ remove_task(id))
              => /\ last'.ret = "False"
                 /\ tasks' = tasks
                 /\ table' = table
                 /\ stats' = stats
                 /\ task_files' = task_files
                 /\ stats_file' = stats_file
                 /\ subdirs' = subdirs]_vars

\* one of the four calls returned False for the absent id while the table
\* and the store held a task
C11_Witness ==
    /\ last.op \in {"complete_task", "fail_task", "update_task", "remove_task"}
    /\ last.id = AbsentId
    /\ last.ret = "False"
    /\ AbsentId \notin DOMAIN tasks
    /\ DOMAIN tasks # {}
    /\ DOMAIN task_files # {}

\* C20: every change of the status of a task of the table is one of
\* Pending -> Processing, Processing -> Completed, Processing -> Pending and
\* Processing -> Failed.
C20_OnlyFsmTransitions ==
    [][\A id \in DOMAIN tasks \cap DOMAIN tasks' :
          heap'[tasks'[id]].status # task(id).status
              => <<task(id).status, heap'[tasks'[id]].status>> \in
                     {<<PENDING, PROCESSING>>, <<PROCESSING, COMPLETED>>,
                      <<PROCESSING, PENDING>>, <<PROCESSING, FAILED>>}]_vars

\* C12: when process_invoice is called on an image that loads, has no table
\* region and has a detected region whose text recognition raises, it
\* returns the structured data, in which exactly the fields of the regions
\* whose recognition raised, and of the regions not detected, are null.
C12_RegionContainment ==
    (/\ call.op = "process_invoice"
     /\ readable(call.image_path)
     /\ "items_table" \notin DOMAIN images[call.image_path].ocr
     /\ \E r \in DOMAIN images[call.image_path].ocr :
           images[call.image_path].ocr[r].raised)
        => /\ call.raised = ""
           /\ \A r \in DOMAIN images[call.image_path].ocr :
                 images[call.image_path].ocr[r].raised
                     <=> field(call.ret, r) = NONE

\* C13: when process_invoice is called on an image that loads, on which the
\* detector reports an items_table region and every text recognition
\* succeeds, it does not raise: parse_table returns a list and the
\* structured data, with that list as its items, is returned.
C13_TableNeverRaises ==
    (/\ call.op = "process_invoice"
     /\ readable(call.image_path)
     /\ "items_table" \in DOMAIN images[call.image_path].ocr
     /\ \A r \in DOMAIN images[call.image_path].ocr :
           ~images[call.image_path].ocr[r].raised)
        => call.raised = ""

\* C14: batch_process on a directory that exists does not raise and returns
\* exactly one entry for each *.jpg file of the directory: the structured
\* data of the file when process_invoice returns for it (its result file is
\* then written), and an error record when process_invoice raises for it,
\* an image that cannot be loaded included, whatever happens for the other
\* files.
C14_BatchIsolation ==
    (call.op = "batch_process" /\ call.image_dir = ImageDir)
        => /\ call.raised = ""
           /\ DOMAIN call.ret = glob_jpg
           /\ \A p \in glob_jpg :
                 IF run_invoice(p).raised = ""
                 THEN /\ call.ret[p] = run_invoice(p).data
                      /\ \E k \in DOMAIN json_dir :
                            /\ json_dir[k].source_image = p
                            /\ json_dir[k].structured_data = call.ret[p]
                 ELSE call.ret[p] = [error |-> run_invoice(p).raised]

\* a batch over two files has returned: the image of one cannot be loaded
\* and the other was processed
C14_Witness ==
    /\ call.op = "batch_process"
    /\ call.image_dir = ImageDir
    /\ call.raised = ""
    /\ \E p, q \in glob_jpg :
          /\ ~readable(p)
          /\ call.ret[p] = [error |-> "ValueError"]
          /\ run_invoice(q).raised = ""
          /\ call.ret[q] = run_invoice(q).data

\* C15: in the structured data returned by extract_structured_data, every
\* scalar field whose region is absent from the results, or present with
\* an empty recognized text, is null (None) and not the empty string.
C15_MissingFieldsNull ==
    (call.op = "extract_structured_data" /\ call.done)
        => \A r \in ScalarRegions :
              (r \notin DOMAIN call.results \/ call.results[r].text = <<>>)
                  => field(call.ret, r) = NONE

\* C16: when process_invoice returns for an image on whose total_amount
\* region the engine reads "Итого: 1 500,00 руб" (no table region, no read
\* that raises), the total_amount of the structured data is "1500.00".
C16_EndToEndAmount ==
    (/\ call.op = "process_invoice"
     /\ readable(call.image_path)
     /\ "items_table" \notin DOMAIN images[call.image_path].ocr
     /\ "total_amount" \in DOMAIN images[call.image_path].ocr
     /\ images[call.image_path].ocr["total_amount"] = Read(ITOGO_1500)
     /\ \A r \in DOMAIN images[call.image_path].ocr :
           ~images[call.image_path].ocr[r].raised)
        => /\ call.raised = ""
           /\ call.ret.total_amount = <<49, 53, 48, 48, 46, 48, 48>>

\* C17: extract_data of the kind total_amount on "1 234,50 руб", alone or
\* after "Итого: ", returns the value "1234.50": the spaces dropped, the
\* comma turned into a point, two decimals.
C17_AmountNormalization ==
    (/\ call.op = "extract_data"
     /\ call.done
     /\ call.region_type = "total_amount"
     /\ call.text \in {AMOUNT_1234, ITOGO_1234})
        => call.ret.value = <<49, 50, 51, 52, 46, 53, 48>>

\* C18 as stated: detect returns a box for exactly the classes that have a
\* candidate of confidence above 0.5, and the box of a class is the first
\* of its candidates above 0.5 whose area (x2 - x1) * (y2 - y1), on the
\* coordinates the model gave, is maximal among them.
C18_RegionSelection ==
    (call.op = "detect" /\ call.done)
        => LET preds == call.preds
               kept(c) == {i \in 1..Len(preds) :
                              preds[i].conf > CONF_THRESHOLD /\ classes[preds[i].cls + 1] = c}
               size(i) == (preds[i].x2 - preds[i].x1) * (preds[i].y2 - preds[i].y1)
               best(c) == CHOOSE i \in kept(c) :
                              /\ \A j \in kept(c) : size(j) <= size(i)
                              /\ \A j \in kept(c) : j < i => size(j) < size(i)
           IN  /\ DOMAIN call.ret = {c \in RegionTypes : kept(c) # {}}
               /\ \A c \in DOMAIN call.ret :
                     call.ret[c] = list(<<int(preds[best(c)].x1), int(preds[best(c)].y1),
                                          int(preds[best(c)].x2), int(preds[best(c)].y2)>>)

\* C18, amended: detect returns a box for exactly the classes that have a
\* candidate of confidence above 0.5, and the box of a class is the first
\* of its candidates above 0.5, with the coordinates truncated to integers,
\* whose area on the truncated coordinates is maximal among them.
C18_RegionSelectionTruncated ==
    (call.op = "detect" /\ call.done)
        => LET preds == call.preds
               kept(c) == {i \in 1..Len(preds) :
                              preds[i].conf > CONF_THRESHOLD /\ classes[preds[i].cls + 1] = c}
               box(i) == <<int(preds[i].x1), int(preds[i].y1),
                           int(preds[i].x2), int(preds[i].y2)>>
               size(i) == (box(i)[3] - box(i)[1]) * (box(i)[4] - box(i)[2])
               best(c) == CHOOSE i \in kept(c) :
                              /\ \A j \in kept(c) : size(j) <= size(i)
                              /\ \A j \in kept(c) : j < i => size(j) < size(i)
           IN  /\ DOMAIN call.ret = {c \in RegionTypes : kept(c) # {}}
               /\ \A c \in DOMAIN call.ret : call.ret[c] = list(box(best(c)))

\* detect has returned for two candidates of one class, both above 0.5,
\* of different boxes and of the same area after truncation
C18_Witness ==
    /\ call.op = "detect"
    /\ call.done
    /\ Len(call.preds) = 2
    /\ call.preds[1].cls = call.preds[2].cls
    /\ call.preds[1].conf > CONF_THRESHOLD
    /\ call.preds[2].conf > CONF_THRESHOLD
    /\ int(call.preds[1].x2) # int(call.preds[2].x2)
    /\ int(call.preds[1].x2) * int(call.preds[1].y2)
           = int(call.preds[2].x2) * int(call.preds[2].y2)
    /\ call.ret[classes[call.preds[1].cls + 1]]
           = list(<<0, 0, int(call.preds[1].x2), int(call.preds[1].y2)>>)

\* C19: when parse_table returns for a table text whose first line is the
\* header "Наименование Количество Цена Сумма", no item of the list it
\* returns is made from that line: no item has the name "Наименование".
C19_HeaderNeverItem ==
    (/\ call.op = "parse_table"
     /\ call.done
     /\ call.ocr_text \in {HEADER, HEADER_AND_ROW}
     /\ call.ret.raised = "")
        => \A k \in 1..Len(call.ret.items) :
              call.ret.items[k].name # slice(HEADER, 1, 13)

\* C21: whenever self.lock is free, every task of the task table has a
\* file in the store that holds its status, its result and its error as
\* they are in memory, and every task file of the store is the file of a
\* task of the table.
C21_MemoryStoreAgreement ==
    lock = "free"
        => /\ \A id \in DOMAIN tasks :
                 /\ id \in DOMAIN task_files
                 /\ {"status", "result", "error"} \subseteq DOMAIN task_files[id]
                 /\ task_files[id].status = task(id).status
                 /\ task_files[id].result = task(id).result
                 /\ task_files[id].error = task(id).error
           /\ DOMAIN task_files \subseteq DOMAIN tasks


\* thread w is between the first and the last write of the body of a
\* state-mutating method
mid_transition(w) ==
    /\ threads[w].op \in MutatingMethods
    /\ threads[w].pc \in {"append", "fields", "save", "move", "del"}

\* thread t reads a task in this step, through get_task, get_pending_tasks
\* or get_stats
observes(t) ==
    /\ threads[t].op \in {"get_task", "get_pending_tasks", "get_stats"}
    /\ Len(threads'[t].obs) > Len(threads[t].obs)

\* C22: a thread that reads a task through get_task, get_pending_tasks or
\* get_stats never does so while another thread is part-way through a
\* state-mutating method (its status written, its result, its error or its
\* file not yet).
C22_NoMidTransitionObservation ==
    [][\A t \in Threads :
          observes(t) => \A w \in Threads \ {t} : ~mid_transition(w)]_tvars

\* thread t is inside the body of a state-mutating method: past the
\* `with self.lock` of the method, or of the cleanup_tasks that called it
InBody(t) ==
    \/ threads[t].op \in MutatingMethods /\ threads[t].pc # "acquire"
    \/ threads[t].caller = "cleanup_tasks"

\* C23: at any time at most one thread is inside the body of a
\* state-mutating method.
C23_MutualExclusion ==
    \A t \in Threads, u \in Threads : InBody(t) /\ InBody(u) => t = u

\* a thread is inside the body of a state-mutating method while another
\* one has called such a method and waits for the lock
C23_Witness ==
    \E t \in Threads, u \in Threads :
        /\ t # u
        /\ InBody(t)
        /\ threads[u].op \in MutatingMethods
        /\ threads[u].pc = "acquire"

\* one statement of the call thread t is in, other than taking the lock
Step(t) ==
    \/ Return(t)
    \/ add_task_create(t)
    \/ add_task_append(t)
    \/ update_task_status(t)
    \/ update_task_fields(t)
    \/ update_task_save(t)
    \/ complete_task_assign(t)
    \/ complete_task_move(t)
    \/ fail_task_body(t)
    \/ remove_task_unlink(t)
    \/ remove_task_del(t)
    \/ cleanup_tasks_collect(t)
    \/ cleanup_tasks_loop(t)
    \/ clear_queue_reset(t)
    \/ clear_queue_save(t)
    \/ get_queue_stats_body(t)
    \/ get_task_status_body(t)
    \/ get_task_read(t)
    \/ values_iter(t)
    \/ values_next(t)

\* a fair scheduler: a thread that can run a statement runs it, and a
\* thread that waits for a lock that is free again and again gets it
FairSpecThreads ==
    SpecThreads /\ \A t \in Threads : /\ WF_tvars(Step(t) /\ UNCHANGED pvars)
                                     /\ SF_tvars(Acquire(t) /\ UNCHANGED pvars)

\* C24: under a fair scheduler a thread that calls get_queue_stats
\* eventually returns from it.
C24_NoIndefiniteBlocking ==
    \A t \in Threads : (threads[t].op = "get_queue_stats") ~> (threads[t].op = "idle")


\* C25: the stages of a process_invoice call run in the order load, detect,
\* recognize, parse_table, extract_structured_data, visualize,
\* _save_results, return (those that run at all); in particular the
\* extraction of the fields comes before the visualization.
C25_StageOrder ==
    call.op = "process_invoice"
        => LET order == <<"load", "detect", "recognize", "parse_table",
                          "extract_structured_data", "visualize", "_save_results",
                          "return">>
           IN  \A i \in 1..Len(call.done), j \in 1..Len(call.done) :
                  i < j => IndexOf(order, call.done[i]) < IndexOf(order, call.done[j])


\* C26: a process_invoice call that persists its results writes them under
\* a key of output/json that no earlier call has written, so that no
\* snapshot is written over (a step that leaves the clock alone is a call).
C26_SnapshotKeysDistinct ==
    [][(now' = now /\ call'.op = "process_invoice" /\ call'.raised = "")
          => <<call'.image_path[1], now>> \notin DOMAIN json_dir]_<<vars, pvars>>


\* C27: a call of complete_task, fail_task, update_task or remove_task on a
\* task of the table that returns False leaves the task table (status,
\* result and error of every task) and the statistics as they were (a step
\* that leaves the clock alone and ends in such a `last` is such a call).
C27_FailureLeavesStateUnchanged ==
    [][(/\ now' = now
        /\ last'.op \in {"complete_task", "fail_task", "update_task", "remove_task"}
        /\ last'.ret = "False"
        /\ last'.id \in DOMAIN tasks)
          => (table' = table /\ stats' = stats)]_vars


\* C28: after clear_queue has returned True (and until the next call) the
\* task table is empty, get_stats reports a total of 0, no task is pending,
\* every statistic is zero, the store holds no task file and a restart
\* would load no task.
C28_ClearQueueEmpties ==
    (last.op = "clear_queue" /\ last.ret = "True")
        => /\ DOMAIN tasks = {}
           /\ get_stats.total = 0
           /\ live(PENDING) = 0
           /\ stats = ZeroStats
           /\ DOMAIN task_files = {}
           /\ loadable = {}


\* C29: while self.lock is free, get_task_status returns a status record
\* for every id of the task table, and None for an id that is not in it.
C29_StatusLookup ==
    lock = "free"
        => /\ \A id \in DOMAIN tasks : get_task_status(id) # <<>>
           /\ get_task_status(AbsentId) = <<>>


\* C30: with no model loaded, a process_invoice call never calls
\* parse_table, and the structured data it extracts, saves and returns has
\* None in every scalar field and no item.
C30_FallbackEmptyInvoice ==
    (model = None /\ call.op = "process_invoice")
        => /\ call.pc # "parse_table"
           /\ \A i \in 1..Len(call.done) : call.done[i] # "parse_table"
           /\ call.pc \in {"_save_results", "return", "returned"}
                 => /\ \A region_type \in ScalarRegions :
                          field(call.data, region_type) = NONE
                    /\ call.data.items = <<>>

\* a call with no model loaded has returned; the detector had found two
\* regions and the OCR engine had read a total in one of them
C30_Witness ==
    /\ model = None
    /\ call.op = "process_invoice"
    /\ call.pc = "returned"
    /\ Cardinality(DOMAIN call.detections) = 2
    /\ \E r \in DOMAIN call.detections : call.results[r].text = _postprocess_text(ITOGO_1500)

====
